---- MODULE Spec2Model ----
(***************************************************************************)
(* SimFi rewards engine: the settlement state machine (rewardsEngine.ts,   *)
(* class RewardsEngine), the Ledger Gateway it drives (bagsService.ts) and *)
(* the advisory-lock leadership of the engine processes, over one shared   *)
(* Postgres database and one chain vault.                                  *)
(*                                                                         *)
(* Time is counted in units of STUCK_TIMEOUT_MS; leaderboard period p      *)
(* covers [p-1, p) and has endTime p.  A lamport amount is an integer.     *)
(* Every `await` of the code is a step boundary; the synchronous code      *)
(* between two awaits is one step.                                         *)
(***************************************************************************)
EXTENDS Integers, Sequences, FiniteSets, TLC

\* ------------------------------------------------------------- configuration
REWARDS_POOL_BPS == 5000
VAULT_RESERVE_LAMPORTS == 50000000
MIN_TRADES == 3
STUCK_TIMEOUT == 1
NullSig == 0
NullBalance == -1
DRY_RUN_NO_TX == -1

PAYOUT_WEIGHTS == <<50, 30, 20>>

\* ------------------------------------------------------------------- bounds
NPeriods == 3
MaxTime == 3
MaxAccruals == 1
MaxSends == 2
MaxCrashes == 1
MaxConnLoss == 1
MaxErrors == 1
FeeUnit == 200
SmallFee == 10
VaultSlack == 150
VaultShortfall == 150
PotAccruals == 2
MaxPot == 120
MaxInflow == 12

Procs == {"a", "b"}
Periods == 1..NPeriods
NoPeriod == 0

EndTime(p) == p

\* --------------------------------------------------------------- bagsService
EstimatePayoutFee(numWinners) == 5000 + numWinners * 5000 + 10000

\* The address test /^[1-9A-HJ-NP-Za-km-z]{32,44}$/ on a wallet, which the
\* model keeps as its length and whether all its characters are base58.
ValidAddress(w) == w.base58 /\ w.len >= 32 /\ w.len <= 44

Wallet(n, l, b) == [name |-> n, len |-> l, base58 |-> b]
W1 == Wallet("W1", 44, TRUE)
W2 == Wallet("W2", 43, TRUE)
W3 == Wallet("W3", 44, TRUE)
W4 == Wallet("W4", 32, TRUE)
WBad == Wallet("0x", 42, FALSE)

\* ------------------------------------------------- leaderboard / trade tables
\* Per-wallet aggregates of tradeHistory JOIN users over [startTime, endTime):
\* the rows of the GROUP BY users.walletAddress of getTopWallets.
Row(w, pr, tc) == [wallet |-> w, profitLamports |-> pr, tradeCount |-> tc]
RowsThree == {Row(W1, 10, 4), Row(W2, 5, 3), Row(W3, 3, 3), Row(W4, 20, 2), Row(WBad, 30, 5)}
RowsTwo == {Row(W1, 10, 4), Row(W2, 5, 3), Row(W3, -3, 6), Row(W4, 2, 1)}
TradeRows(p) == IF p % 2 = 1 THEN RowsThree ELSE RowsTwo

\* ORDER BY COALESCE(SUM(profitLoss), 0) DESC: every order of the rows the
\* query can return, rows of equal profit in any order.
RECURSIVE SortByProfitDesc(_)
SortByProfitDesc(S) ==
  IF S = {} THEN {<<>>}
  ELSE LET tops == {r \in S : \A q \in S : q.profitLamports <= r.profitLamports}
       IN UNION {{<<top>> \o rest : rest \in SortByProfitDesc(S \ {top})} : top \in tops}

QueryLimit == 20

Slice(s, n) == SubSeq(s, 1, IF Len(s) < n THEN Len(s) ELSE n)

EnoughTrades(r) == r.tradeCount >= MIN_TRADES
PositiveProfit(r) == r.profitLamports > 0
WalletOk(r) == ValidAddress(r.wallet)

\* ------------------------------------------------------------ pot accounting
TotalInflow(before, after) == IF after > before THEN after - before ELSE 0

\* Each rank's weight applied on its own, the remainder dropped.
AmountByWeight(pot, i) == (pot * PAYOUT_WEIGHTS[i]) \div 100

Amount(pot, i) ==
  LET a1 == (pot * PAYOUT_WEIGHTS[1]) \div 100
      a2 == (pot * PAYOUT_WEIGHTS[2]) \div 100
  IN IF i = 1 THEN a1 ELSE IF i = 2 THEN a2 ELSE pot - a1 - a2

BuildPayoutPlan(pot, top3) ==
  [i \in 1..Len(top3) |->
     [rank |-> i, wallet |-> top3[i].wallet, amountLamports |-> Amount(pot, i)]]

RECURSIVE SumAmounts(_)
SumAmounts(plan) ==
  IF plan = <<>> THEN 0 ELSE Head(plan).amountLamports + SumAmounts(Tail(plan))

\* -------------------------------------------------------------------- state
VARIABLES
  \* rewards_state (the singleton row)
  carryRewardsLamports, treasuryAccruedLamports, lastProcessedPeriodEnd,
  \* rewards_epochs (one row per leaderboard period, status "none": no row)
  \* and rewards_winners (per epoch, the set of rows)
  epochs, winners,
  \* pg advisory lock 987654321: the process whose session holds it
  lockHolder,
  \* the chain: vault balance, fees waiting to be claimed, the payout batches
  \* that landed per epoch, their number, and the lamports they moved
  vault, claimable, sent, nSends, paidOut,
  \* wall clock
  now,
  \* per process: the RewardsEngine fields, bagsService.initialized, whether
  \* the two timers are installed, whether the lock connection is alive
  isStopped, isLeader, isProcessing, lockClient, timers, initialized, connAlive,
  \* per process: where its tick is, the tick's local variables, and how
  \* many calls of tick() are between the single-flight test and `finally`,
  \* and whether a call of tick() returned at that test during the current tick
  pc, loc, inFlight, refused,
  \* per process: the epoch whose recovery the current tick (between ticks:
  \* the last tick) has completed, NoPeriod if none
  recovered,
  \* configuration REWARDS_DRY_RUN
  DRY_RUN,
  \* the deployment: which engine processes exist, and how many more fee
  \* accruals (and of which sizes), crashes, lost connections and rejected
  \* calls the run may see
  replicas, budget,
  \* history: the reward share of every claim phase run so far
  rewardShare,
  \* history, per process: the message of the last answer of runOnce()
  runOnceReply,
  \* the deployment: the processes whose environment holds SOLANA_RPC_URL,
  \* REWARDS_VAULT_PRIVATE_KEY, REWARDS_TOKEN_MINT and BAGS_API_KEY
  configured,
  \* history, per process: the last line start() has logged
  startLog,
  \* the deployment: REWARDS_ADMIN_SECRET and ADMIN_SECRET, "" when unset
  adminEnv,
  \* the deployment: the value REWARDS_POOL_BPS has after clamp(.., 0, 10000)
  poolBps,
  \* history, per process: the secret header and the HTTP status of the last
  \* POST /run it has answered
  httpRun,
  \* tradeHistory JOIN users: per leaderboard period, the rows of the
  \* GROUP BY users.walletAddress over the trades closed in its window
  tradeHistory,
  \* per process: where its call of checkLeadership() and its call of stop()
  \* are waiting, "idle" when no such call is running
  lockCall

\* The reward share rounded to the nearest lamport.
RewardInflowRounded(totalInflow) == (totalInflow * poolBps + 5000) \div 10000

\* rewardInflow = totalInflow * REWARDS_POOL_BPS / 10000, in bigint arithmetic.
RewardInflow(totalInflow) == (totalInflow * poolBps) \div 10000

\* getTopWallets: LIMIT 20 on the ordered rows, then the three filters, then
\* slice(0, 3); the set of results the query order allows.
TopWalletsOf(rows) ==
  Slice(SelectSeq(SelectSeq(SelectSeq(Slice(rows, QueryLimit), EnoughTrades), PositiveProfit), WalletOk), 3)

GetTopWallets(p) == {TopWalletsOf(rows) : rows \in SortByProfitDesc(tradeHistory[p])}

dbVars == <<carryRewardsLamports, treasuryAccruedLamports, lastProcessedPeriodEnd, epochs, winners>>
stateRow == <<carryRewardsLamports, treasuryAccruedLamports, lastProcessedPeriodEnd>>
chainVars == <<vault, claimable, sent, nSends, paidOut>>
lockVars == <<isStopped, isLeader, lockClient, timers, initialized, connAlive, lockHolder>>
envVars == <<now, DRY_RUN, replicas, configured, budget>>
tickVars == <<isProcessing, pc, loc, inFlight, refused, recovered>>
vars == <<dbVars, chainVars, lockVars, envVars, tickVars, rewardShare, runOnceReply, startLog, adminEnv, poolBps, httpRun, tradeHistory, lockCall>>

NoEpoch ==
  [status |-> "none", beforeBalanceLamports |-> NullBalance,
   afterBalanceLamports |-> NullBalance, totalInflowLamports |-> 0,
   rewardInflowLamports |-> 0, treasuryInflowLamports |-> 0,
   carryInLamports |-> 0, totalPotLamports |-> 0, payoutPlan |-> <<>>,
   payoutTxSignature |-> NullSig, totalPaidLamports |-> 0,
   failureReason |-> "", updatedAt |-> 0]

NoCall == [check |-> "idle", stop |-> "idle"]

NoLoc ==
  [epoch |-> NoPeriod, before |-> 0, after |-> 0, plan |-> <<>>, winners |-> <<>>,
   sig |-> NullSig,
   stuck |-> NoEpoch, confirmed |-> FALSE, inTry |-> FALSE, error |-> "",
   state |-> [carryRewardsLamports |-> 0, treasuryAccruedLamports |-> 0]]

\* history: no POST /run has been answered yet.
NoRequest == [provided |-> "", status |-> 0]

\* Values of the administrator secret variables, and of the request's secret
\* headers ("" when the variable or header is absent).
SecretValues == {"", "s3cret", "admin"}
HeaderValues == SecretValues \cup {"guess"}

\* history: start() has not logged yet.
NoLog == ""

\* history: runOnce() has not answered yet.
NoReply == ""

\* history: no epoch has been handled by this tick's recovery.
NoRecovery == [epoch |-> NoPeriod, confirmed |-> FALSE]

InitialVault == VAULT_RESERVE_LAMPORTS + EstimatePayoutFee(3) + VaultSlack
\* A vault the operator has funded short of the reserve.
LowVault == VAULT_RESERVE_LAMPORTS + EstimatePayoutFee(3) - VaultShortfall

\* The database after the migration, the lock free, nothing sent, and no
\* engine process started; the carried pot and the claimable fees are set by
\* the specification.
InitEngine ==
  /\ treasuryAccruedLamports = 0
  /\ lastProcessedPeriodEnd = 0
  /\ epochs = [e \in Periods |-> NoEpoch]
  /\ winners = [e \in Periods |-> {}]
  /\ lockHolder = "none"
  /\ sent = [e \in Periods |-> 0]
  /\ nSends = 0
  /\ paidOut = 0
  /\ isStopped = [p \in Procs |-> TRUE]
  /\ isLeader = [p \in Procs |-> FALSE]
  /\ isProcessing = [p \in Procs |-> FALSE]
  /\ lockClient = [p \in Procs |-> FALSE]
  /\ timers = [p \in Procs |-> FALSE]
  /\ initialized = [p \in Procs |-> FALSE]
  /\ connAlive = [p \in Procs |-> FALSE]
  /\ pc = [p \in Procs |-> "idle"]
  /\ loc = [p \in Procs |-> NoLoc]
  /\ inFlight = [p \in Procs |-> 0]
  /\ refused = [p \in Procs |-> FALSE]
  /\ recovered = [p \in Procs |-> NoRecovery]
  /\ rewardShare = 0
  /\ runOnceReply = [p \in Procs |-> NoReply]
  /\ startLog = [p \in Procs |-> NoLog]
  /\ httpRun = [p \in Procs |-> NoRequest]
  /\ lockCall = [p \in Procs |-> NoCall]

InitRest ==
  /\ tradeHistory = [p \in Periods |-> TradeRows(p)]
  /\ InitEngine

InitCommon ==
  /\ carryRewardsLamports = 0
  /\ claimable = 0
  /\ InitRest

FullBudget == [accruals |-> MaxAccruals, crashes |-> MaxCrashes,
               connLoss |-> MaxConnLoss, errors |-> MaxErrors, fees |-> {FeeUnit}]

\* One engine process against the database: it can crash, be stopped and
\* started, and have its Gateway and database calls rejected.
Init ==
  /\ InitCommon
  /\ vault = InitialVault
  /\ now = 0
  /\ DRY_RUN \in BOOLEAN
  /\ replicas = {"a"}
  /\ configured = replicas
  /\ adminEnv = [REWARDS_ADMIN_SECRET |-> "s3cret", ADMIN_SECRET |-> ""]
  /\ poolBps = REWARDS_POOL_BPS
  /\ budget = [FullBudget EXCEPT !.connLoss = 0]

\* ------------------------------------------------------------- small helpers
\* An UPDATE of one rewards_epochs row; the trigger rewards_epochs_updated_at
\* stamps updated_at.
Touch(row) == [row EXCEPT !.updatedAt = now]
SetEpoch(e, row) == [epochs EXCEPT ![e] = Touch(row)]

Set(f, p, v) == [f EXCEPT ![p] = v]

\* tick()'s finally block, and the return to the event loop.
EndTick(p) ==
  /\ pc' = Set(pc, p, "idle")
  /\ isProcessing' = Set(isProcessing, p, FALSE)
  /\ loc' = Set(loc, p, NoLoc)
  /\ inFlight' = Set(inFlight, p, inFlight[p] - 1)
  /\ refused' = Set(refused, p, FALSE)
  /\ UNCHANGED recovered

\* tick() up to its first await: the single-flight test and flag.
EnterTick(p) ==
  /\ isProcessing' = Set(isProcessing, p, TRUE)
  /\ pc' = Set(pc, p, "recover")
  /\ loc' = Set(loc, p, NoLoc)
  /\ inFlight' = Set(inFlight, p, inFlight[p] + 1)
  /\ recovered' = Set(recovered, p, NoRecovery)
  /\ UNCHANGED refused

BeginTickUnguarded(p) == EnterTick(p)

BeginTick(p) ==
  IF isProcessing[p]
  THEN /\ refused' = Set(refused, p, TRUE)
       /\ UNCHANGED <<isProcessing, pc, loc, inFlight, recovered>>
  ELSE EnterTick(p)

\* Where control goes when executePayout / finalizeEpoch returns: back into
\* tick() (processNextPeriod follows recoverStuckEpochs), or out of
\* processEpoch and so to the end of the tick.
AfterPayout(p, l) ==
  IF l.inTry
  THEN EndTick(p)
  ELSE /\ pc' = Set(pc, p, "next")
       /\ loc' = Set(loc, p, NoLoc)
       /\ recovered' = Set(recovered, p, [epoch |-> l.epoch, confirmed |-> l.confirmed])
       /\ UNCHANGED <<isProcessing, inFlight, refused>>

\* ------------------------------------------------------- sendPayout batch
\* A bigint as two limbs, value = hi * 2^27 + lo with 0 <= lo < 2^27, so that
\* amounts around 2^53 keep their size.
LimbBase == 134217728
BigInt(n) == [hi |-> n \div LimbBase, lo |-> n % LimbBase]
Greater(x, y) == x.hi > y.hi \/ (x.hi = y.hi /\ x.lo > y.lo)

\* MAX_SAFE_LAMPORTS = BigInt(Number.MAX_SAFE_INTEGER) = 2^53 - 1.
MAX_SAFE_LAMPORTS == [hi |-> 67108863, lo |-> LimbBase - 1]

\* executePayout: winners = plan.map(p => ({wallet, lamports: BigInt(p.amountLamports)})).
WinnersOf(plan) ==
  [i \in 1..Len(plan) |->
     [wallet |-> plan[i].wallet, lamports |-> BigInt(plan[i].amountLamports)]]

\* A validation that tests the amounts only.
AmountErrorOnly(w) ==
  IF Greater(w.lamports, MAX_SAFE_LAMPORTS) THEN "exceeds safe limit"
  ELSE IF ~Greater(w.lamports, BigInt(0)) THEN "Invalid payout amount"
  ELSE ""

\* sendPayout's three tests on one entry: the error it returns, "" if none.
EntryError(w) ==
  IF Greater(w.lamports, MAX_SAFE_LAMPORTS) THEN "exceeds safe limit"
  ELSE IF ~Greater(w.lamports, BigInt(0)) THEN "Invalid payout amount"
  ELSE IF ~ValidAddress(w.wallet) THEN "Invalid wallet address"
  ELSE ""

\* sendPayout's pre-validation loop: the error of the first entry that fails.
RECURSIVE ValidationError(_)
ValidationError(batch) ==
  IF batch = <<>> THEN ""
  ELSE IF EntryError(Head(batch)) # "" THEN EntryError(Head(batch))
  ELSE ValidationError(Tail(batch))

PayoutValid(batch) == ValidationError(batch) = ""

\* The lamports a batch moves; the vault covers it only if no amount reaches
\* 2^27 (the vault of the model holds far less).
RECURSIVE TotalLamports(_)
TotalLamports(batch) ==
  IF batch = <<>> THEN 0 ELSE Head(batch).lamports.lo + TotalLamports(Tail(batch))

Affordable(batch) ==
  /\ \A i \in 1..Len(batch) : batch[i].lamports.hi = 0
  /\ vault >= TotalLamports(batch)

\* executePayout without its DRY_RUN test.
EnterPayoutNoDryRun(p, l) ==
  IF ~initialized[p]
  THEN /\ pc' = Set(pc, p, "finalize")
       /\ loc' = Set(loc, p, [l EXCEPT !.sig = NullSig])
  ELSE /\ pc' = Set(pc, p, "send")
       /\ loc' = Set(loc, p, [l EXCEPT !.winners = WinnersOf(l.plan)])

\* executePayout before its first await: DRY_RUN and isReady() choose the path.
EnterPayout(p, l) ==
  IF DRY_RUN
  THEN /\ pc' = Set(pc, p, "finalize")
       /\ loc' = Set(loc, p, [l EXCEPT !.sig = DRY_RUN_NO_TX])
  ELSE IF ~initialized[p]
  THEN /\ pc' = Set(pc, p, "finalize")
       /\ loc' = Set(loc, p, [l EXCEPT !.sig = NullSig])
  ELSE /\ pc' = Set(pc, p, "send")
       /\ loc' = Set(loc, p, [l EXCEPT !.winners = WinnersOf(l.plan)])

\* A step inside a tick that neither starts nor ends it.
SameTick == UNCHANGED <<isProcessing, inFlight, refused, recovered>>

\* ------------------------------------------------------------------ recovery
IsStuck(row) ==
  /\ row.status \in {"claiming", "paying"}
  /\ row.updatedAt < now - STUCK_TIMEOUT

\* recoverStuckEpochs: the SELECT ... LIMIT 1 of a stuck epoch.
RecoverSelect(p) ==
  /\ pc[p] = "recover"
  /\ LET stuckSet == {e \in Periods : IsStuck(epochs[e])}
     IN IF stuckSet = {}
        THEN /\ pc' = Set(pc, p, "next")
             /\ UNCHANGED loc
        ELSE \E e \in stuckSet :
               /\ loc' = Set(loc, p, [NoLoc EXCEPT !.epoch = e, !.stuck = epochs[e]])
               /\ pc' = Set(pc, p, IF epochs[e].status = "claiming"
                                    THEN "rec_claim" ELSE "rec_pay")
  /\ SameTick
  /\ UNCHANGED <<dbVars, chainVars, lockVars, envVars, rewardShare, runOnceReply, startLog, adminEnv, poolBps, httpRun, tradeHistory, lockCall>>

\* recoverStuckEpochs, stuck.status = "claiming".
RecoverClaiming(p) ==
  /\ pc[p] = "rec_claim"
  /\ LET e == loc[p].epoch
         stuck == loc[p].stuck
         currentBalance == vault
         totalInflow == TotalInflow(stuck.beforeBalanceLamports, currentBalance)
         rewardInflow == RewardInflow(totalInflow)
     IN IF stuck.beforeBalanceLamports # NullBalance /\ initialized[p]
        THEN epochs' = SetEpoch(e, [epochs[e] EXCEPT
                         !.afterBalanceLamports = currentBalance,
                         !.totalInflowLamports = totalInflow,
                         !.rewardInflowLamports = rewardInflow,
                         !.treasuryInflowLamports = totalInflow - rewardInflow,
                         !.status = "created"])
        ELSE epochs' = SetEpoch(e, [epochs[e] EXCEPT
                         !.status = "failed",
                         !.failureReason = "stuck_in_claiming_no_before_balance"])
  /\ pc' = Set(pc, p, "next")
  /\ recovered' = Set(recovered, p, [epoch |-> loc[p].epoch, confirmed |-> FALSE])
  /\ loc' = Set(loc, p, NoLoc)
  /\ UNCHANGED <<isProcessing, inFlight, refused>>
  /\ UNCHANGED <<stateRow, winners, chainVars, lockVars, envVars, rewardShare, runOnceReply, startLog, adminEnv, poolBps, httpRun, tradeHistory, lockCall>>

\* bagsService.verifyTransaction: true only for a signature that is on chain;
\* an RPC error is caught and answered false.
VerifyOutcomes(sig) == IF sig >= 1 /\ sig <= nSends THEN {TRUE, FALSE} ELSE {FALSE}

\* The signature recovery hands to finalizeEpoch once it is confirmed.
FreshSignature(stuck) == nSends + 1

RecoveredSignature(stuck) == stuck.payoutTxSignature

\* recoverStuckEpochs, stuck.status = "paying".
RecoverPaying(p) ==
  /\ pc[p] = "rec_pay"
  /\ LET e == loc[p].epoch
         stuck == loc[p].stuck
         withPlan == [loc[p] EXCEPT !.plan = stuck.payoutPlan]
     IN \E confirmed \in VerifyOutcomes(stuck.payoutTxSignature) :
          IF stuck.payoutTxSignature # NullSig /\ initialized[p] /\ confirmed
          THEN /\ pc' = Set(pc, p, "finalize")
               /\ loc' = Set(loc, p, [loc[p] EXCEPT !.sig = RecoveredSignature(stuck),
                                                     !.confirmed = TRUE])
               /\ UNCHANGED <<dbVars, recovered>>
          ELSE IF Len(stuck.payoutPlan) > 0
          THEN /\ EnterPayout(p, withPlan)
               /\ UNCHANGED <<dbVars, recovered>>
          ELSE /\ carryRewardsLamports' = carryRewardsLamports + stuck.totalPotLamports
               /\ epochs' = SetEpoch(e, [epochs[e] EXCEPT
                               !.status = "failed",
                               !.failureReason = "stuck_in_paying_no_plan"])
               /\ pc' = Set(pc, p, "next")
               /\ recovered' = Set(recovered, p, [epoch |-> e, confirmed |-> FALSE])
               /\ loc' = Set(loc, p, NoLoc)
               /\ UNCHANGED <<treasuryAccruedLamports, lastProcessedPeriodEnd, winners>>
  /\ UNCHANGED <<isProcessing, inFlight, refused>>
  /\ UNCHANGED <<chainVars, lockVars, envVars, rewardShare, runOnceReply, startLog, adminEnv, poolBps, httpRun, tradeHistory, lockCall>>

\* ------------------------------------------------- sequential period selection
RECURSIVE OrderByEndTime(_)
OrderByEndTime(S) ==
  IF S = {} THEN <<>>
  ELSE LET first == CHOOSE q \in S : \A r \in S : EndTime(q) <= EndTime(r)
       IN <<first>> \o OrderByEndTime(S \ {first})

Reverse(s) == [i \in 1..Len(s) |-> s[Len(s) + 1 - i]]
Limit1(s) == IF s = <<>> THEN NoPeriod ELSE s[1]

\* The oldest ended period, whatever the cursor.
OldestEndedPeriod(lastEndTime, t) ==
  Limit1(OrderByEndTime({q \in Periods : EndTime(q) <= t}))

\* The two queries of processNextPeriod on leaderboard_periods; NoPeriod when
\* the query returns no row.
NextPeriodToProcess(lastEndTime, t) ==
  IF lastEndTime # 0
  THEN Limit1(OrderByEndTime({q \in Periods : EndTime(q) <= t /\ EndTime(q) > lastEndTime}))
  ELSE Limit1(Reverse(OrderByEndTime({q \in Periods : EndTime(q) <= t})))

\* processEpochForPeriod that does not wait for an epoch in progress.
PhaseANoWait(status) ==
  IF status \in {"completed", "skipped"} THEN "advance"
  ELSE IF status = "failed" THEN "reset"
  ELSE "process"

\* processEpochForPeriod's tests on the status of the selected period's epoch:
\* advance the cursor, wait for recovery, reset a failed epoch, or process.
PhaseA(status) ==
  IF status \in {"completed", "skipped"} THEN "advance"
  ELSE IF status \in {"claiming", "paying"} THEN "wait"
  ELSE IF status = "failed" THEN "reset"
  ELSE "process"

\* processNextPeriod and processEpochForPeriod (phase A), up to the first await
\* of processEpoch: the cursor is read, the period selected, its epoch row
\* looked up, and at most one row is written.
ProcessNextPeriod(p) ==
  /\ pc[p] = "next"
  /\ LET lastEndTime == lastProcessedPeriodEnd
         period == NextPeriodToProcess(lastEndTime, now)
         status == epochs[period].status
     IN /\ IF period = NoPeriod
           THEN EndTick(p) /\ UNCHANGED dbVars
           ELSE IF PhaseA(status) = "advance"
           THEN /\ lastProcessedPeriodEnd' = EndTime(period)
                /\ EndTick(p)
                /\ UNCHANGED <<carryRewardsLamports, treasuryAccruedLamports, epochs, winners>>
           ELSE IF PhaseA(status) = "wait"
           THEN EndTick(p) /\ UNCHANGED dbVars
           ELSE IF PhaseA(status) = "reset"
           THEN /\ epochs' = SetEpoch(period, [epochs[period] EXCEPT
                                !.status = "created", !.failureReason = ""])
                /\ EndTick(p)
                /\ UNCHANGED <<stateRow, winners>>
           ELSE /\ epochs' = IF status = "none"
                             THEN SetEpoch(period, [NoEpoch EXCEPT !.status = "created"])
                             ELSE epochs
                /\ pc' = Set(pc, p, "claim")
                /\ loc' = Set(loc, p, [NoLoc EXCEPT !.epoch = period, !.inTry = TRUE])
                /\ SameTick
                /\ UNCHANGED <<stateRow, winners>>
  /\ UNCHANGED <<chainVars, lockVars, envVars, rewardShare, runOnceReply, startLog, adminEnv, poolBps, httpRun, tradeHistory, lockCall>>

\* ------------------------------------------------------------ processEpoch
\* Phase 1, first half: beforeBalance is read and the epoch written "claiming".
ClaimStart(p) ==
  /\ pc[p] = "claim"
  /\ LET e == loc[p].epoch
         beforeBalance == IF initialized[p] THEN vault ELSE 0
     IN /\ epochs' = SetEpoch(e, [epochs[e] EXCEPT
                        !.status = "claiming",
                        !.beforeBalanceLamports = beforeBalance])
        /\ loc' = Set(loc, p, [loc[p] EXCEPT !.before = beforeBalance])
  /\ pc' = Set(pc, p, "fees")
  /\ SameTick
  /\ UNCHANGED <<stateRow, winners, chainVars, lockVars, envVars, rewardShare, runOnceReply, startLog, adminEnv, poolBps, httpRun, tradeHistory, lockCall>>

\* Phase 1, second half: claimFees moves the claimable fees into the vault
\* (not in DRY_RUN), afterBalance is read and the inflow split.
ClaimFees(p) ==
  /\ pc[p] = "fees"
  /\ LET claimed == IF initialized[p] /\ ~DRY_RUN THEN claimable ELSE 0
         afterBalance == IF initialized[p] THEN vault + claimed ELSE loc[p].before
     IN /\ vault' = vault + claimed
        /\ claimable' = claimable - claimed
        /\ loc' = Set(loc, p, [loc[p] EXCEPT !.after = afterBalance])
        /\ rewardShare' = rewardShare + RewardInflow(TotalInflow(loc[p].before, afterBalance))
        /\ UNCHANGED <<runOnceReply, startLog, adminEnv, poolBps, httpRun, tradeHistory, lockCall>>
  /\ pc' = Set(pc, p, "decide")
  /\ SameTick
  /\ UNCHANGED <<dbVars, sent, nSends, paidOut, lockVars, envVars>>

\* Phase 2, the Decide transaction, its first statement: the rewards_state
\* row is read. The transaction's writes follow once the epoch row can be
\* locked; another transaction may commit in between, and nothing re-reads
\* the state row (no SELECT ... FOR UPDATE).
DecideRead(p) ==
  /\ pc[p] = "decide"
  /\ loc' = Set(loc, p, [loc[p] EXCEPT !.state =
               [carryRewardsLamports |-> carryRewardsLamports,
                treasuryAccruedLamports |-> treasuryAccruedLamports]])
  /\ pc' = Set(pc, p, "decide_tx")
  /\ SameTick
  /\ UNCHANGED <<dbVars, chainVars, lockVars, envVars, rewardShare, runOnceReply, startLog, adminEnv, poolBps, httpRun, tradeHistory, lockCall>>

\* Phase 2: the writes of the Decide transaction, and its commit.
\* `top3.length < 3` negated: enough wallets are eligible for a payout.
EnoughEligibleTwo(top3) == Len(top3) >= 2

EnoughEligible(top3) == Len(top3) >= 3

\* minRequired = totalPot + VAULT_RESERVE_LAMPORTS + estimatePayoutFee(3).
MinRequiredNoReserve(totalPot) == totalPot

MinRequired(totalPot) == totalPot + VAULT_RESERVE_LAMPORTS + EstimatePayoutFee(3)

\* The carry written in the transaction that marks the epoch paying:
\* set({ carryRewardsLamports: 0n }).
ReservedCarry(totalPot) == 0

Decide(p) ==
  /\ pc[p] = "decide_tx"
  /\ LET e == loc[p].epoch
         state == loc[p].state
         afterBalance == loc[p].after
         totalInflow == TotalInflow(loc[p].before, afterBalance)
         rewardInflow == RewardInflow(totalInflow)
         treasuryInflow == totalInflow - rewardInflow
         carryIn == state.carryRewardsLamports
         totalPot == carryIn + rewardInflow
         claimed == [epochs[e] EXCEPT
                       !.afterBalanceLamports = afterBalance,
                       !.totalInflowLamports = totalInflow,
                       !.rewardInflowLamports = rewardInflow,
                       !.treasuryInflowLamports = treasuryInflow,
                       !.carryInLamports = carryIn,
                       !.totalPotLamports = totalPot]
     IN \E top3 \in GetTopWallets(e) :
        LET minRequired == MinRequired(totalPot)
            plan == BuildPayoutPlan(totalPot, top3)
        IN
        /\ treasuryAccruedLamports' = state.treasuryAccruedLamports + treasuryInflow
        /\ IF ~EnoughEligible(top3)
           THEN /\ carryRewardsLamports' = totalPot
                /\ lastProcessedPeriodEnd' = EndTime(e)
                /\ epochs' = SetEpoch(e, [claimed EXCEPT
                                !.status = "skipped",
                                !.failureReason = "insufficient_eligible_wallets"])
                /\ EndTick(p)
           ELSE IF afterBalance < minRequired
           THEN /\ carryRewardsLamports' = totalPot
                /\ lastProcessedPeriodEnd' = EndTime(e)
                /\ epochs' = SetEpoch(e, [claimed EXCEPT
                                !.status = "skipped",
                                !.failureReason = "insufficient_vault_balance"])
                /\ EndTick(p)
           ELSE /\ carryRewardsLamports' = ReservedCarry(totalPot)
                /\ epochs' = SetEpoch(e, [claimed EXCEPT
                                !.status = "paying",
                                !.payoutPlan = plan,
                                !.totalPaidLamports = totalPot])
                /\ EnterPayout(p, [loc[p] EXCEPT !.plan = plan])
                /\ SameTick
                /\ UNCHANGED lastProcessedPeriodEnd
  /\ UNCHANGED <<winners, chainVars, lockVars, envVars, rewardShare, runOnceReply, startLog, adminEnv, poolBps, httpRun, tradeHistory, lockCall>>

\* ------------------------------------------------------------------- payout
\* Phase 3: bagsService.sendPayout. Either the batch transfer lands and is
\* answered with its signature, or nothing is sent and it is answered not-ok
\* (pre-validation, or an RPC error caught inside sendPayout).
SendPayout(p) ==
  /\ pc[p] = "send"
  /\ LET e == loc[p].epoch
         batch == loc[p].winners
         total == TotalLamports(batch)
     IN \/ /\ PayoutValid(batch)
           /\ Len(batch) > 0
           /\ Affordable(batch)
           /\ nSends < MaxSends
           /\ vault' = vault - total
           /\ sent' = [sent EXCEPT ![e] = @ + 1]
           /\ nSends' = nSends + 1
           /\ paidOut' = paidOut + total
           /\ loc' = Set(loc, p, [loc[p] EXCEPT !.sig = nSends + 1])
           /\ pc' = Set(pc, p, "persist")
        \/ /\ pc' = Set(pc, p, "comp")
           /\ loc' = Set(loc, p, [loc[p] EXCEPT !.error =
                        IF PayoutValid(batch) THEN "payout_failed"
                        ELSE ValidationError(batch)])
           /\ UNCHANGED <<vault, sent, nSends, paidOut>>
  /\ SameTick
  /\ UNCHANGED <<dbVars, claimable, lockVars, envVars, rewardShare, runOnceReply, startLog, adminEnv, poolBps, httpRun, tradeHistory, lockCall>>

\* executePayout, success: the signature is stored at once, in its own update.
PersistSignature(p) ==
  /\ pc[p] = "persist"
  /\ LET e == loc[p].epoch
     IN epochs' = SetEpoch(e, [epochs[e] EXCEPT !.payoutTxSignature = loc[p].sig])
  /\ pc' = Set(pc, p, "finalize")
  /\ SameTick
  /\ UNCHANGED <<stateRow, winners, chainVars, lockVars, envVars, loc, rewardShare, runOnceReply, startLog, adminEnv, poolBps, httpRun, tradeHistory, lockCall>>

\* executePayout, sendPayout not ok: the compensation transaction.
PayoutFailed(p) ==
  /\ pc[p] = "comp"
  /\ LET e == loc[p].epoch
     IN /\ carryRewardsLamports' =
             IF epochs[e].totalPotLamports # 0
             THEN carryRewardsLamports + epochs[e].totalPotLamports
             ELSE carryRewardsLamports
        /\ epochs' = SetEpoch(e, [epochs[e] EXCEPT
                        !.status = "failed", !.failureReason = loc[p].error])
  /\ AfterPayout(p, loc[p])
  /\ UNCHANGED <<treasuryAccruedLamports, lastProcessedPeriodEnd, winners, chainVars, lockVars, envVars, rewardShare, runOnceReply, startLog, adminEnv, poolBps, httpRun, tradeHistory, lockCall>>

\* INSERT ... ON CONFLICT DO NOTHING into rewards_winners, row by row: a row
\* is dropped if (epoch, rank) or (epoch, wallet) is already there.
RECURSIVE InsertWinners(_, _)
InsertWinners(rows, plan) ==
  IF plan = <<>> THEN rows
  ELSE LET w == [rank |-> Head(plan).rank, walletAddress |-> Head(plan).wallet,
                 payoutLamports |-> Head(plan).amountLamports]
           conflict == \E r \in rows : r.rank = w.rank \/ r.walletAddress = w.walletAddress
       IN InsertWinners(IF conflict THEN rows ELSE rows \cup {w}, Tail(plan))

NoSignature(txSignature) == NullSig

\* The signature finalizeEpoch writes on the completed row.
FinalSignature(txSignature) == txSignature

\* finalizeEpoch: the epoch is read, then one transaction inserts the winners,
\* marks the epoch completed and moves the cursor.
FinalizeEpoch(p) ==
  /\ pc[p] = "finalize"
  /\ LET e == loc[p].epoch
         epoch == epochs[e]
         plan == epoch.payoutPlan
         totalPaid == epoch.totalPotLamports
     IN /\ winners' = [winners EXCEPT ![e] = InsertWinners(@, plan)]
        /\ epochs' = SetEpoch(e, [epoch EXCEPT
                        !.status = "completed",
                        !.payoutTxSignature = FinalSignature(loc[p].sig),
                        !.totalPaidLamports = totalPaid])
        /\ lastProcessedPeriodEnd' = EndTime(e)
  /\ AfterPayout(p, loc[p])
  /\ UNCHANGED <<carryRewardsLamports, treasuryAccruedLamports, chainVars, lockVars, envVars, rewardShare, runOnceReply, startLog, adminEnv, poolBps, httpRun, tradeHistory, lockCall>>

\* --------------------------------------------------------------- exceptions
\* A Gateway read (getVaultBalance) or a database call rejects. Inside
\* processEpoch's try the catch block runs next; elsewhere the exception
\* reaches tick(), which logs it and ends. sendPayout and claimFees catch
\* their own errors and never throw. An aborted transaction changes nothing.
Throw(p) ==
  /\ budget.errors > 0
  /\ budget' = [budget EXCEPT !.errors = @ - 1]
  /\ \/ /\ pc[p] \in {"claim", "fees", "decide", "decide_tx"}
        /\ pc' = Set(pc, p, "catch")
        /\ loc' = Set(loc, p, [loc[p] EXCEPT !.error = pc[p]])
        /\ SameTick
     \/ /\ pc[p] \in {"persist", "finalize", "comp"}
        /\ loc[p].inTry
        /\ pc' = Set(pc, p, "catch")
        /\ loc' = Set(loc, p, [loc[p] EXCEPT !.error = pc[p]])
        /\ SameTick
     \/ /\ pc[p] \in {"recover", "rec_claim", "rec_pay", "next"}
        /\ EndTick(p)
     \/ /\ pc[p] \in {"persist", "finalize", "comp"}
        /\ ~loc[p].inTry
        /\ EndTick(p)
  /\ UNCHANGED <<dbVars, chainVars, lockVars, now, DRY_RUN, replicas, configured, rewardShare, runOnceReply, startLog, adminEnv, poolBps, httpRun, tradeHistory, lockCall>>

\* processEpoch's catch block: "try to restore state on error".
CatchBlock(p) ==
  /\ pc[p] = "catch"
  /\ LET e == loc[p].epoch
         epoch == epochs[e]
     IN IF epoch.status = "paying" /\ epoch.totalPotLamports # 0
        THEN /\ carryRewardsLamports' = carryRewardsLamports + epoch.totalPotLamports
             /\ epochs' = SetEpoch(e, [epoch EXCEPT
                             !.status = "failed", !.failureReason = loc[p].error])
        ELSE /\ epochs' = SetEpoch(e, [epoch EXCEPT
                             !.status = "failed", !.failureReason = loc[p].error])
             /\ UNCHANGED carryRewardsLamports
  /\ EndTick(p)
  /\ UNCHANGED <<treasuryAccruedLamports, lastProcessedPeriodEnd, winners, chainVars, lockVars, envVars, rewardShare, runOnceReply, startLog, adminEnv, poolBps, httpRun, tradeHistory, lockCall>>

\* The catch block's own database calls reject: swallowed by `catch {}`.
CatchBlockFails(p) ==
  /\ pc[p] = "catch"
  /\ EndTick(p)
  /\ UNCHANGED <<dbVars, chainVars, lockVars, envVars, rewardShare, runOnceReply, startLog, adminEnv, poolBps, httpRun, tradeHistory, lockCall>>

\* ------------------------------------------------------------ advisory lock
\* tryAcquireLock: pg_try_advisory_lock on a fresh connection of the lock
\* pool; the session keeps the lock while the connection lives.
TryAcquireLock(p, client, leader) ==
  IF client
  THEN /\ lockClient' = Set(lockClient, p, client)
       /\ isLeader' = Set(isLeader, p, leader)
       /\ UNCHANGED <<lockHolder, connAlive>>
  ELSE IF lockHolder = "none"
  THEN /\ lockHolder' = p
       /\ lockClient' = Set(lockClient, p, TRUE)
       /\ connAlive' = Set(connAlive, p, TRUE)
       /\ isLeader' = Set(isLeader, p, TRUE)
  ELSE /\ lockClient' = Set(lockClient, p, FALSE)
       /\ isLeader' = Set(isLeader, p, FALSE)
       /\ UNCHANGED <<lockHolder, connAlive>>

\* What pg_advisory_unlock on p's lock connection leaves of the lock: a dead
\* connection's session is gone, and its lock with it.
Unlocked(p) == IF lockHolder = p THEN "none" ELSE lockHolder

\* An init() that answers ready whatever the environment holds.
InitAlwaysReady(p, rpcOk) == TRUE

\* bagsService.init(): not ready when one of the four environment variables
\* is missing or the test call getLatestBlockhash is rejected.
BagsInit(p, rpcOk) == p \in configured /\ rpcOk

\* The answers getLatestBlockhash can give to init().
RpcOutcomes == IF budget.errors > 0 THEN {TRUE, FALSE} ELSE {TRUE}

\* start(): when Gateway init answers not ready, a warning is logged and
\* start() returns; otherwise the lock is tried, both timers installed and, as
\* leader, the initial tick started.
Start(p) ==
  /\ p \in replicas
  /\ isStopped[p]
  /\ \E rpcOk \in RpcOutcomes :
       /\ budget' = IF p \in configured /\ ~rpcOk
                    THEN [budget EXCEPT !.errors = @ - 1] ELSE budget
       /\ IF ~BagsInit(p, rpcOk)
          THEN /\ startLog' = Set(startLog, p, "Engine disabled - Bags service not configured")
               /\ UNCHANGED <<lockVars, tickVars>>
          ELSE /\ startLog' = Set(startLog, p, "Engine started")
               /\ initialized' = Set(initialized, p, TRUE)
               /\ isStopped' = Set(isStopped, p, FALSE)
               /\ TryAcquireLock(p, lockClient[p], isLeader[p])
               /\ timers' = Set(timers, p, TRUE)
               /\ IF isLeader'[p] THEN BeginTick(p) ELSE UNCHANGED tickVars
  /\ UNCHANGED <<dbVars, chainVars, now, DRY_RUN, replicas, configured, rewardShare, runOnceReply,
                 adminEnv, poolBps, httpRun, tradeHistory, lockCall>>

\* stop(): timers cleared, explicit unlock, connection released, pool closed.
Stop(p) ==
  /\ ~isStopped[p]
  /\ isStopped' = Set(isStopped, p, TRUE)
  /\ timers' = Set(timers, p, FALSE)
  /\ lockHolder' = IF lockClient[p] THEN Unlocked(p) ELSE lockHolder
  /\ lockClient' = Set(lockClient, p, FALSE)
  /\ connAlive' = Set(connAlive, p, FALSE)
  /\ isLeader' = Set(isLeader, p, FALSE)
  /\ UNCHANGED <<dbVars, chainVars, envVars, initialized, tickVars, rewardShare, runOnceReply, startLog, adminEnv, poolBps, httpRun, tradeHistory, lockCall>>

\* The leader heartbeat, every LEADER_CHECK_MS.
CheckLeadership(p) ==
  /\ timers[p]
  /\ ~isStopped[p]
  /\ IF isLeader[p] /\ lockClient[p]
     THEN IF connAlive[p]
          THEN UNCHANGED <<lockClient, isLeader, lockHolder, connAlive>>
          ELSE TryAcquireLock(p, FALSE, FALSE)
     ELSE TryAcquireLock(p, lockClient[p], isLeader[p])
  /\ UNCHANGED <<dbVars, chainVars, envVars, isStopped, timers, initialized, tickVars, rewardShare, runOnceReply, startLog, adminEnv, poolBps, httpRun, tradeHistory, lockCall>>

\* ------------------------------------------- the lock calls, await by await
\* lockPool is set by start() and nulled as stop() returns.
LockPoolOpen(p) == ~isStopped[p] \/ lockCall[p].stop # "idle"

\* tryAcquireLock up to its first await: nothing to do without a pool or
\* with a lock connection, otherwise lockPool.connect() is awaited.
AcquireFrom(p) == IF LockPoolOpen(p) /\ ~lockClient[p] THEN "connect" ELSE "idle"

\* The leader timer fires: checkLeadership runs up to its first await, the
\* ping of a leader, or the connect of a process that is not leader.
LeaderTimerFires(p) ==
  /\ p \in replicas
  /\ timers[p] /\ ~isStopped[p]
  /\ lockCall[p].check = "idle"
  /\ lockCall' = Set(lockCall, p, [lockCall[p] EXCEPT !.check =
                    IF isLeader[p] /\ lockClient[p] THEN "ping"
                    ELSE IF ~isLeader[p] THEN AcquireFrom(p) ELSE "idle"])
  /\ UNCHANGED <<dbVars, chainVars, lockVars, envVars, tickVars, rewardShare, runOnceReply, startLog, adminEnv, poolBps, httpRun, tradeHistory>>

\* SELECT 1 is answered: checkLeadership returns, or the query rejects on a
\* dead connection and releaseLock is entered.
PingAnswered(p) ==
  /\ lockCall[p].check = "ping"
  /\ lockCall' = Set(lockCall, p, [lockCall[p] EXCEPT !.check =
                    IF connAlive[p] THEN "idle" ELSE "release"])
  /\ UNCHANGED <<dbVars, chainVars, lockVars, envVars, tickVars, rewardShare, runOnceReply, startLog, adminEnv, poolBps, httpRun, tradeHistory>>

\* releaseLock in checkLeadership's catch, then the test
\* `!this.isLeader && !this.isStopped` and tryAcquireLock's first await.
ReleaseAfterPing(p) ==
  /\ lockCall[p].check = "release"
  /\ lockHolder' = IF lockClient[p] THEN Unlocked(p) ELSE lockHolder
  /\ lockClient' = Set(lockClient, p, FALSE)
  /\ connAlive' = Set(connAlive, p, FALSE)
  /\ isLeader' = Set(isLeader, p, FALSE)
  /\ lockCall' = Set(lockCall, p, [lockCall[p] EXCEPT !.check =
                    IF ~isStopped[p] /\ LockPoolOpen(p) THEN "connect" ELSE "idle"])
  /\ UNCHANGED <<dbVars, chainVars, envVars, isStopped, timers, initialized, tickVars, rewardShare, runOnceReply, startLog, adminEnv, poolBps, httpRun, tradeHistory>>

\* lockPool.connect() hands out a client; pg_try_advisory_lock is sent.
PoolConnects(p) ==
  /\ lockCall[p].check = "connect"
  /\ lockCall' = Set(lockCall, p, [lockCall[p] EXCEPT !.check = "query"])
  /\ UNCHANGED <<dbVars, chainVars, lockVars, envVars, tickVars, rewardShare, runOnceReply, startLog, adminEnv, poolBps, httpRun, tradeHistory>>

\* pg_try_advisory_lock is answered: acquired, the client is kept and
\* isLeader set; otherwise the client is released and isLeader cleared.
LockQueryAnswered(p) ==
  /\ lockCall[p].check = "query"
  /\ TryAcquireLock(p, FALSE, FALSE)
  /\ lockCall' = Set(lockCall, p, [lockCall[p] EXCEPT !.check = "idle"])
  /\ UNCHANGED <<dbVars, chainVars, envVars, isStopped, timers, initialized, tickVars, rewardShare, runOnceReply, startLog, adminEnv, poolBps, httpRun, tradeHistory>>

\* stop() up to its first await: isStopped set, both timers cleared, and
\* releaseLock either awaits the unlock query or, with no lock connection,
\* clears isLeader; lockPool.end() is awaited next.
StopCalled(p) ==
  /\ p \in replicas
  /\ ~isStopped[p]
  /\ lockCall[p].stop = "idle"
  /\ isStopped' = Set(isStopped, p, TRUE)
  /\ timers' = Set(timers, p, FALSE)
  /\ IF lockClient[p]
     THEN /\ lockCall' = Set(lockCall, p, [lockCall[p] EXCEPT !.stop = "unlock"])
          /\ UNCHANGED isLeader
     ELSE /\ lockCall' = Set(lockCall, p, [lockCall[p] EXCEPT !.stop = "end"])
          /\ isLeader' = Set(isLeader, p, FALSE)
  /\ UNCHANGED <<dbVars, chainVars, envVars, lockClient, initialized, connAlive, lockHolder, tickVars, rewardShare, runOnceReply, startLog, adminEnv, poolBps, httpRun, tradeHistory>>

\* pg_advisory_unlock is answered: the client is released, lockClient and
\* isLeader cleared.
StopUnlocked(p) ==
  /\ lockCall[p].stop = "unlock"
  /\ lockHolder' = IF lockClient[p] THEN Unlocked(p) ELSE lockHolder
  /\ lockClient' = Set(lockClient, p, FALSE)
  /\ connAlive' = Set(connAlive, p, FALSE)
  /\ isLeader' = Set(isLeader, p, FALSE)
  /\ lockCall' = Set(lockCall, p, [lockCall[p] EXCEPT !.stop = "end"])
  /\ UNCHANGED <<dbVars, chainVars, envVars, isStopped, timers, initialized, tickVars, rewardShare, runOnceReply, startLog, adminEnv, poolBps, httpRun, tradeHistory>>

\* lockPool.end() settles (resolved or rejected, the rejection is swallowed),
\* lockPool is nulled and stop() returns.
StopReturns(p) ==
  /\ lockCall[p].stop = "end"
  /\ lockCall' = Set(lockCall, p, [lockCall[p] EXCEPT !.stop = "idle"])
  /\ UNCHANGED <<dbVars, chainVars, lockVars, envVars, tickVars, rewardShare, runOnceReply, startLog, adminEnv, poolBps, httpRun, tradeHistory>>

\* start() called when no stop() of the process is still running.
StartStopped(p) == lockCall[p].stop = "idle" /\ Start(p)

\* The tick timer, every ENGINE_TICK_MS.
TimerTick(p) ==
  /\ timers[p]
  /\ isLeader[p] /\ ~isStopped[p] /\ ~isProcessing[p]
  /\ BeginTick(p)
  /\ UNCHANGED <<dbVars, chainVars, lockVars, envVars, rewardShare, runOnceReply, startLog, adminEnv, poolBps, httpRun, tradeHistory, lockCall>>

\* The three tests of runOnce() without the leader test.
RunOnceRejectionAnyInstance(p) ==
  IF ~initialized[p] THEN "Bags service not configured"
  ELSE IF isProcessing[p] THEN "Already processing"
  ELSE NoReply

\* The three tests of runOnce(): the message of its rejection, NoReply when
\* it goes on to tick().
RunOnceRejection(p) ==
  IF ~initialized[p] THEN "Bags service not configured"
  ELSE IF ~isLeader[p] THEN "Not leader instance"
  ELSE IF isProcessing[p] THEN "Already processing"
  ELSE NoReply

\* runOnce(), the manual trigger: rejected with ok = false and a message, or
\* tick() is called and ok = true with "Processing triggered" is answered
\* (tick() catches its own errors).
RunOnceCall(p) ==
  /\ LET rejection == RunOnceRejection(p)
     IN IF rejection # NoReply
        THEN /\ runOnceReply' = Set(runOnceReply, p, rejection)
             /\ UNCHANGED tickVars
        ELSE /\ runOnceReply' = Set(runOnceReply, p, "Processing triggered")
             /\ BeginTick(p)
  /\ UNCHANGED <<dbVars, chainVars, lockVars, envVars, rewardShare, startLog, adminEnv, poolBps, tradeHistory, lockCall>>

\* runOnce() called from inside the process.
RunOnce(p) ==
  /\ p \in replicas
  /\ RunOnceCall(p)
  /\ UNCHANGED httpRun

\* The secret the route compares with, "" when neither variable is set:
\* process.env.REWARDS_ADMIN_SECRET || process.env.ADMIN_SECRET.
AdminSecret == IF adminEnv.REWARDS_ADMIN_SECRET # ""
               THEN adminEnv.REWARDS_ADMIN_SECRET ELSE adminEnv.ADMIN_SECRET

\* req.headers["x-admin-secret"] || req.headers["x-rewards-secret"] || "".
Provided(xAdmin, xRewards) == IF xAdmin # "" THEN xAdmin ELSE xRewards

\* The test of the route: `secret && provided !== secret`.
Rejects(secret, provided) == secret # "" /\ provided # secret

\* POST /api/rewards/run: 401 Unauthorized, or runOnce() and its answer.
PostRun(p) ==
  /\ p \in replicas
  /\ \E xAdmin \in HeaderValues, xRewards \in HeaderValues :
       LET provided == Provided(xAdmin, xRewards)
       IN IF Rejects(AdminSecret, provided)
          THEN /\ httpRun' = Set(httpRun, p, [provided |-> provided, status |-> 401])
               /\ UNCHANGED <<dbVars, chainVars, lockVars, envVars, tickVars, rewardShare,
                              runOnceReply, startLog, adminEnv, poolBps, tradeHistory, lockCall>>
          ELSE /\ httpRun' = Set(httpRun, p, [provided |-> provided, status |-> 200])
               /\ RunOnceCall(p)

\* -------------------------------------------------------------- environment
\* The lock connection of p dies; Postgres ends the session and frees its lock.
ConnectionLost(p) ==
  /\ lockClient[p] /\ connAlive[p]
  /\ budget.connLoss > 0
  /\ budget' = [budget EXCEPT !.connLoss = @ - 1]
  /\ connAlive' = Set(connAlive, p, FALSE)
  /\ lockHolder' = Unlocked(p)
  /\ UNCHANGED <<dbVars, chainVars, isStopped, isLeader, lockClient, timers, initialized,
                 now, DRY_RUN, replicas, configured, tickVars, rewardShare, runOnceReply, startLog, adminEnv, poolBps, httpRun, tradeHistory, lockCall>>

\* The process dies at any point and comes back as a fresh RewardsEngine.
Crash(p) ==
  /\ ~isStopped[p] \/ pc[p] # "idle"
  /\ budget.crashes > 0
  /\ budget' = [budget EXCEPT !.crashes = @ - 1]
  /\ isStopped' = Set(isStopped, p, TRUE)
  /\ isLeader' = Set(isLeader, p, FALSE)
  /\ isProcessing' = Set(isProcessing, p, FALSE)
  /\ lockClient' = Set(lockClient, p, FALSE)
  /\ timers' = Set(timers, p, FALSE)
  /\ initialized' = Set(initialized, p, FALSE)
  /\ connAlive' = Set(connAlive, p, FALSE)
  /\ lockHolder' = Unlocked(p)
  /\ pc' = Set(pc, p, "idle")
  /\ loc' = Set(loc, p, NoLoc)
  /\ inFlight' = Set(inFlight, p, 0)
  /\ refused' = Set(refused, p, FALSE)
  /\ recovered' = Set(recovered, p, NoRecovery)
  /\ lockCall' = Set(lockCall, p, NoCall)
  /\ UNCHANGED <<dbVars, chainVars, now, DRY_RUN, replicas, configured, rewardShare, runOnceReply, startLog, adminEnv, poolBps, httpRun, tradeHistory>>

AdvanceClock ==
  /\ now < MaxTime
  /\ now' = now + 1
  /\ UNCHANGED <<dbVars, chainVars, lockVars, DRY_RUN, replicas, configured, budget, tickVars, rewardShare, runOnceReply, startLog, adminEnv, poolBps, httpRun, tradeHistory, lockCall>>

\* Creator fees accrue upstream, waiting for the next claimFees.
AccrueFees ==
  /\ budget.accruals > 0
  /\ budget' = [budget EXCEPT !.accruals = @ - 1]
  /\ \E fee \in budget.fees : claimable' = claimable + fee
  /\ UNCHANGED <<dbVars, vault, sent, nSends, paidOut, lockVars, now, DRY_RUN, replicas, configured, tickVars, rewardShare, runOnceReply, startLog, adminEnv, poolBps, httpRun, tradeHistory, lockCall>>

\* ------------------------------------------------------------ specification
TickStep(p) ==
  \/ RecoverSelect(p)
  \/ RecoverClaiming(p)
  \/ RecoverPaying(p)
  \/ ProcessNextPeriod(p)
  \/ ClaimStart(p)
  \/ ClaimFees(p)
  \/ DecideRead(p)
  \/ Decide(p)
  \/ SendPayout(p)
  \/ PersistSignature(p)
  \/ PayoutFailed(p)
  \/ FinalizeEpoch(p)
  \/ Throw(p)
  \/ CatchBlock(p)
  \/ CatchBlockFails(p)

\* (runOnce() is called in SpecLeader; a call it accepts starts a tick that
\* the tick timer can start in the same state.)
Next ==
  \/ \E p \in Procs : Start(p)
  \/ \E p \in Procs : Stop(p)
  \/ \E p \in Procs : CheckLeadership(p)
  \/ \E p \in Procs : TimerTick(p)
  \/ \E p \in Procs : TickStep(p)
  \/ \E p \in Procs : Crash(p)
  \/ AdvanceClock
  \/ AccrueFees

Spec == Init /\ [][Next]_vars

\* Two engine processes and the advisory lock, before any period has ended:
\* a tick runs recovery and finds no period to process.
InitLeader ==
  /\ InitCommon
  /\ vault = InitialVault
  /\ now = 0
  /\ DRY_RUN = FALSE
  /\ replicas = Procs
  /\ configured \in SUBSET Procs
  /\ adminEnv = [REWARDS_ADMIN_SECRET |-> "s3cret", ADMIN_SECRET |-> ""]
  /\ poolBps = REWARDS_POOL_BPS
  /\ budget = [FullBudget EXCEPT !.accruals = 0]

NextLeader ==
  \/ \E p \in Procs : Start(p)
  \/ \E p \in Procs : Stop(p)
  \/ \E p \in Procs : CheckLeadership(p)
  \/ \E p \in Procs : TimerTick(p)
  \/ \E p \in Procs : RunOnce(p)
  \/ \E p \in Procs : RecoverSelect(p)
  \/ \E p \in Procs : ProcessNextPeriod(p)
  \/ \E p \in Procs : ConnectionLost(p)
  \/ \E p \in Procs : Crash(p)

SpecLeader == InitLeader /\ [][NextLeader]_vars

\* Two engine processes that are started and stopped, with the lock calls
\* taken await by await and a lock connection that can be lost; ticks are
\* started but not run.
InitShutdown ==
  /\ InitCommon
  /\ vault = InitialVault
  /\ now = 0
  /\ DRY_RUN = FALSE
  /\ replicas = Procs
  /\ configured = replicas
  /\ adminEnv = [REWARDS_ADMIN_SECRET |-> "s3cret", ADMIN_SECRET |-> ""]
  /\ poolBps = REWARDS_POOL_BPS
  /\ budget = [FullBudget EXCEPT !.accruals = 0, !.crashes = 0, !.errors = 0]

NextShutdown ==
  \/ \E p \in Procs : StartStopped(p)
  \/ \E p \in Procs : LeaderTimerFires(p)
  \/ \E p \in Procs : PingAnswered(p)
  \/ \E p \in Procs : ReleaseAfterPing(p)
  \/ \E p \in Procs : PoolConnects(p)
  \/ \E p \in Procs : LockQueryAnswered(p)
  \/ \E p \in Procs : StopCalled(p)
  \/ \E p \in Procs : StopUnlocked(p)
  \/ \E p \in Procs : StopReturns(p)
  \/ \E p \in Procs : ConnectionLost(p)

SpecShutdown == InitShutdown /\ [][NextShutdown]_vars

\* Two engine processes deployed when the first period has just ended, with
\* fees to claim and a lock connection that can be lost; no crash, no rejected
\* call, and the clock stands still.
InitRace ==
  /\ InitCommon
  /\ vault = InitialVault
  /\ now = 1
  /\ DRY_RUN = FALSE
  /\ replicas = Procs
  /\ configured = replicas
  /\ adminEnv = [REWARDS_ADMIN_SECRET |-> "s3cret", ADMIN_SECRET |-> ""]
  /\ poolBps = REWARDS_POOL_BPS
  /\ budget = [FullBudget EXCEPT !.crashes = 0, !.errors = 0]

NextRace ==
  \/ \E p \in Procs : Start(p)
  \/ \E p \in Procs : CheckLeadership(p)
  \/ \E p \in Procs : TimerTick(p)
  \/ \E p \in Procs : RecoverSelect(p)
  \/ \E p \in Procs : ProcessNextPeriod(p)
  \/ \E p \in Procs : ClaimStart(p)
  \/ \E p \in Procs : ClaimFees(p)
  \/ \E p \in Procs : DecideRead(p)
  \/ \E p \in Procs : Decide(p)
  \/ \E p \in Procs : SendPayout(p)
  \/ \E p \in Procs : PersistSignature(p)
  \/ \E p \in Procs : PayoutFailed(p)
  \/ \E p \in Procs : FinalizeEpoch(p)
  \/ \E p \in Procs : ConnectionLost(p)
  \/ AccrueFees

SpecRace == InitRace /\ [][NextRace]_vars

\* One engine process settling period after period with no fault but a
\* refused payout: fees of two sizes accrue, and the vault starts funded or
\* short of the reserve.
InitPot ==
  /\ InitCommon
  /\ vault \in {InitialVault, LowVault}
  /\ now = 0
  /\ DRY_RUN = FALSE
  /\ replicas = {"a"}
  /\ configured = replicas
  /\ adminEnv = [REWARDS_ADMIN_SECRET |-> "s3cret", ADMIN_SECRET |-> ""]
  /\ poolBps = REWARDS_POOL_BPS
  /\ budget = [FullBudget EXCEPT !.accruals = PotAccruals, !.crashes = 0, !.connLoss = 0,
                                 !.errors = 0, !.fees = {SmallFee, FeeUnit}]

NextPot ==
  \/ \E p \in Procs : Start(p)
  \/ \E p \in Procs : TimerTick(p)
  \/ \E p \in Procs : RecoverSelect(p)
  \/ \E p \in Procs : ProcessNextPeriod(p)
  \/ \E p \in Procs : ClaimStart(p)
  \/ \E p \in Procs : ClaimFees(p)
  \/ \E p \in Procs : DecideRead(p)
  \/ \E p \in Procs : Decide(p)
  \/ \E p \in Procs : SendPayout(p)
  \/ \E p \in Procs : PersistSignature(p)
  \/ \E p \in Procs : PayoutFailed(p)
  \/ \E p \in Procs : FinalizeEpoch(p)
  \/ AdvanceClock
  \/ AccrueFees

SpecPot == InitPot /\ [][NextPot]_vars

\* The same process with its timers running: start() returns, the tick timer
\* keeps firing every ENGINE_TICK_MS, and every await of a tick returns.
TickProgress(p) ==
  \/ Start(p)
  \/ TimerTick(p)
  \/ RecoverSelect(p)
  \/ ProcessNextPeriod(p)
  \/ ClaimStart(p)
  \/ ClaimFees(p)
  \/ DecideRead(p)
  \/ Decide(p)
  \/ SendPayout(p)
  \/ PersistSignature(p)
  \/ PayoutFailed(p)
  \/ FinalizeEpoch(p)

InitLive ==
  /\ InitCommon
  /\ vault = InitialVault
  /\ now = 0
  /\ DRY_RUN = FALSE
  /\ replicas = {"a"}
  /\ configured = replicas
  /\ adminEnv = [REWARDS_ADMIN_SECRET |-> "s3cret", ADMIN_SECRET |-> ""]
  /\ poolBps = REWARDS_POOL_BPS
  /\ budget = [FullBudget EXCEPT !.crashes = 0, !.connLoss = 0, !.errors = 0]

SpecLive == InitLive /\ [][NextPot]_vars /\ \A p \in Procs : WF_vars(TickProgress(p))

\* One engine process that can crash at any step and be restarted: no call
\* is rejected, so every tick runs to its end unless the process dies.
InitCrash ==
  /\ InitCommon
  /\ vault = InitialVault
  /\ now = 0
  /\ DRY_RUN = FALSE
  /\ replicas = {"a"}
  /\ configured = replicas
  /\ adminEnv = [REWARDS_ADMIN_SECRET |-> "s3cret", ADMIN_SECRET |-> ""]
  /\ poolBps = REWARDS_POOL_BPS
  /\ budget = [FullBudget EXCEPT !.connLoss = 0, !.errors = 0]

NextCrash ==
  \/ \E p \in Procs : Start(p)
  \/ \E p \in Procs : TimerTick(p)
  \/ \E p \in Procs : RecoverSelect(p)
  \/ \E p \in Procs : RecoverClaiming(p)
  \/ \E p \in Procs : RecoverPaying(p)
  \/ \E p \in Procs : ProcessNextPeriod(p)
  \/ \E p \in Procs : ClaimStart(p)
  \/ \E p \in Procs : ClaimFees(p)
  \/ \E p \in Procs : DecideRead(p)
  \/ \E p \in Procs : Decide(p)
  \/ \E p \in Procs : SendPayout(p)
  \/ \E p \in Procs : PersistSignature(p)
  \/ \E p \in Procs : PayoutFailed(p)
  \/ \E p \in Procs : FinalizeEpoch(p)
  \/ \E p \in Procs : Crash(p)
  \/ AdvanceClock
  \/ AccrueFees

SpecCrash == InitCrash /\ [][NextCrash]_vars

\* One engine process behind the HTTP route, under every setting of the two
\* administrator secret variables.
InitAdmin ==
  /\ InitCommon
  /\ vault = InitialVault
  /\ now = 0
  /\ DRY_RUN = FALSE
  /\ replicas = {"a"}
  /\ configured = replicas
  /\ adminEnv \in [REWARDS_ADMIN_SECRET : SecretValues, ADMIN_SECRET : SecretValues]
  /\ poolBps = REWARDS_POOL_BPS
  /\ budget = [FullBudget EXCEPT !.accruals = 0, !.crashes = 0, !.connLoss = 0, !.errors = 0]

NextAdmin ==
  \/ \E p \in Procs : Start(p)
  \/ \E p \in Procs : Stop(p)
  \/ \E p \in Procs : PostRun(p)
  \/ \E p \in Procs : RecoverSelect(p)
  \/ \E p \in Procs : ProcessNextPeriod(p)

SpecAdmin == InitAdmin /\ [][NextAdmin]_vars

\* One engine process settling period 1 with any pot from 0 to MaxPot carried
\* in rewards_state and a vault that covers it.
InitPlan ==
  /\ InitRest
  /\ carryRewardsLamports \in 0..MaxPot
  /\ claimable = 0
  /\ vault = InitialVault + MaxPot
  /\ now = 1
  /\ DRY_RUN = FALSE
  /\ replicas = {"a"}
  /\ configured = replicas
  /\ adminEnv = [REWARDS_ADMIN_SECRET |-> "s3cret", ADMIN_SECRET |-> ""]
  /\ poolBps = REWARDS_POOL_BPS
  /\ budget = [FullBudget EXCEPT !.accruals = 0, !.crashes = 0, !.connLoss = 0, !.errors = 0]

NextPlan ==
  \/ \E p \in Procs : Start(p)
  \/ \E p \in Procs : TimerTick(p)
  \/ \E p \in Procs : RecoverSelect(p)
  \/ \E p \in Procs : ProcessNextPeriod(p)
  \/ \E p \in Procs : ClaimStart(p)
  \/ \E p \in Procs : ClaimFees(p)
  \/ \E p \in Procs : DecideRead(p)
  \/ \E p \in Procs : Decide(p)
  \/ \E p \in Procs : SendPayout(p)
  \/ \E p \in Procs : PersistSignature(p)
  \/ \E p \in Procs : PayoutFailed(p)
  \/ \E p \in Procs : FinalizeEpoch(p)

SpecPlan == InitPlan /\ [][NextPlan]_vars

\* The same with the timers running and every await of a tick returning.
SpecProgress == InitPlan /\ [][NextPlan]_vars /\ \A p \in Procs : WF_vars(TickProgress(p))

\* One engine process settling period 1 with any fee amount from 0 to
\* MaxInflow waiting to be claimed, under several settings of REWARDS_POOL_BPS;
\* it can crash once and be restarted.
PoolBpsValues == {0, 1, 3333, REWARDS_POOL_BPS, 9999, 10000}

InitSplit ==
  /\ InitRest
  /\ carryRewardsLamports = 0
  /\ claimable \in 0..MaxInflow
  /\ vault = InitialVault
  /\ now = 1
  /\ DRY_RUN = FALSE
  /\ replicas = {"a"}
  /\ configured = replicas
  /\ adminEnv = [REWARDS_ADMIN_SECRET |-> "s3cret", ADMIN_SECRET |-> ""]
  /\ poolBps \in PoolBpsValues
  /\ budget = [FullBudget EXCEPT !.accruals = 0, !.connLoss = 0, !.errors = 0]

NextSplit ==
  \/ \E p \in Procs : Start(p)
  \/ \E p \in Procs : TimerTick(p)
  \/ \E p \in Procs : RecoverSelect(p)
  \/ \E p \in Procs : RecoverClaiming(p)
  \/ \E p \in Procs : RecoverPaying(p)
  \/ \E p \in Procs : ProcessNextPeriod(p)
  \/ \E p \in Procs : ClaimStart(p)
  \/ \E p \in Procs : ClaimFees(p)
  \/ \E p \in Procs : DecideRead(p)
  \/ \E p \in Procs : Decide(p)
  \/ \E p \in Procs : SendPayout(p)
  \/ \E p \in Procs : PersistSignature(p)
  \/ \E p \in Procs : PayoutFailed(p)
  \/ \E p \in Procs : FinalizeEpoch(p)
  \/ \E p \in Procs : Crash(p)
  \/ AdvanceClock

SpecSplit == InitSplit /\ [][NextSplit]_vars

\* Two engine processes whose ticks can overlap (a lost lock connection
\* lets the second one lead) while the clock advances from period to period;
\* earlier periods have left MaxPot lamports in the carry, and each process
\* runs the tick of its start() before its timer first fires.
InitOverlap ==
  /\ InitRest
  /\ carryRewardsLamports = MaxPot
  /\ claimable = 0
  /\ vault = InitialVault + MaxPot
  /\ now = 1
  /\ DRY_RUN = FALSE
  /\ replicas = Procs
  /\ configured = replicas
  /\ adminEnv = [REWARDS_ADMIN_SECRET |-> "s3cret", ADMIN_SECRET |-> ""]
  /\ poolBps = REWARDS_POOL_BPS
  /\ budget = [FullBudget EXCEPT !.accruals = 0, !.crashes = 0, !.errors = 0]

NextOverlap ==
  \/ \E p \in Procs : Start(p)
  \/ \E p \in Procs : RecoverSelect(p)
  \/ \E p \in Procs : ProcessNextPeriod(p)
  \/ \E p \in Procs : ClaimStart(p)
  \/ \E p \in Procs : ClaimFees(p)
  \/ \E p \in Procs : DecideRead(p)
  \/ \E p \in Procs : Decide(p)
  \/ \E p \in Procs : SendPayout(p)
  \/ \E p \in Procs : PersistSignature(p)
  \/ \E p \in Procs : PayoutFailed(p)
  \/ \E p \in Procs : FinalizeEpoch(p)
  \/ \E p \in Procs : ConnectionLost(p)
  \/ AdvanceClock

SpecOverlap == InitOverlap /\ [][NextOverlap]_vars

\* One engine process deployed when every period has ended, so that a first
\* run selects the last period and, its claim interrupted by a crash, keeps
\* selecting it after recovery: the clock runs on past the last period's end
\* until the interrupted epoch is stuck. One Gateway or database call can
\* be rejected.
LateTime == NPeriods + STUCK_TIMEOUT + 1

AdvanceClockLate ==
  /\ now < LateTime
  /\ now' = now + 1
  /\ UNCHANGED <<dbVars, chainVars, lockVars, DRY_RUN, replicas, configured, budget, tickVars, rewardShare, runOnceReply, startLog, adminEnv, poolBps, httpRun, tradeHistory, lockCall>>

InitResume ==
  /\ InitCommon
  /\ vault = InitialVault
  /\ now = NPeriods
  /\ DRY_RUN = FALSE
  /\ replicas = {"a"}
  /\ configured = replicas
  /\ adminEnv = [REWARDS_ADMIN_SECRET |-> "s3cret", ADMIN_SECRET |-> ""]
  /\ poolBps = REWARDS_POOL_BPS
  /\ budget = [FullBudget EXCEPT !.connLoss = 0]

NextResume ==
  \/ \E p \in Procs : Start(p)
  \/ \E p \in Procs : TimerTick(p)
  \/ \E p \in Procs : RecoverSelect(p)
  \/ \E p \in Procs : RecoverClaiming(p)
  \/ \E p \in Procs : RecoverPaying(p)
  \/ \E p \in Procs : ProcessNextPeriod(p)
  \/ \E p \in Procs : ClaimStart(p)
  \/ \E p \in Procs : ClaimFees(p)
  \/ \E p \in Procs : DecideRead(p)
  \/ \E p \in Procs : Decide(p)
  \/ \E p \in Procs : SendPayout(p)
  \/ \E p \in Procs : PersistSignature(p)
  \/ \E p \in Procs : PayoutFailed(p)
  \/ \E p \in Procs : FinalizeEpoch(p)
  \/ \E p \in Procs : Crash(p)
  \/ AdvanceClockLate
  \/ \E p \in Procs : Throw(p)
  \/ \E p \in Procs : CatchBlock(p)
  \/ \E p \in Procs : CatchBlockFails(p)
  \/ AccrueFees

SpecResume == InitResume /\ [][NextResume]_vars

\* ------------------------------------------------------------- sendPayout
\* bagsService.sendPayout called with any batch of one to MaxBatch entries:
\* the caller, executePayout of process "a", stands at its call for the paying
\* epoch of period 1.
MaxBatch == 3
TooShort == Wallet("W5", 31, TRUE)
TooLong == Wallet("W6", 45, TRUE)
BatchWallets == {W1, W4, WBad, TooShort, TooLong}
AboveSafe == [hi |-> MAX_SAFE_LAMPORTS.hi + 1, lo |-> 0]
BatchAmounts == {BigInt(0 - 1), BigInt(0), BigInt(1), BigInt(5), MAX_SAFE_LAMPORTS, AboveSafe}
BatchEntries == [wallet : BatchWallets, lamports : BatchAmounts]
Batches == UNION {[1..n -> BatchEntries] : n \in 1..MaxBatch}
PayingPot == 100

InitPayout ==
  /\ carryRewardsLamports = 0
  /\ treasuryAccruedLamports = 0
  /\ lastProcessedPeriodEnd = 0
  /\ epochs = [e \in Periods |->
                 IF e = 1
                 THEN [NoEpoch EXCEPT !.status = "paying", !.totalPotLamports = PayingPot,
                                      !.totalPaidLamports = PayingPot,
                                      !.carryInLamports = PayingPot, !.updatedAt = 1]
                 ELSE NoEpoch]
  /\ winners = [e \in Periods |-> {}]
  /\ vault = InitialVault
  /\ claimable = 0
  /\ sent = [e \in Periods |-> 0]
  /\ nSends = 0
  /\ paidOut = 0
  /\ lockHolder = "a"
  /\ isStopped = [p \in Procs |-> p # "a"]
  /\ isLeader = [p \in Procs |-> p = "a"]
  /\ lockClient = [p \in Procs |-> p = "a"]
  /\ timers = [p \in Procs |-> p = "a"]
  /\ initialized = [p \in Procs |-> p = "a"]
  /\ connAlive = [p \in Procs |-> p = "a"]
  /\ isProcessing = [p \in Procs |-> p = "a"]
  /\ pc = [p \in Procs |-> IF p = "a" THEN "send" ELSE "idle"]
  /\ \E batch \in Batches :
       loc = [p \in Procs |->
                IF p = "a"
                THEN [NoLoc EXCEPT !.epoch = 1, !.winners = batch, !.inTry = TRUE]
                ELSE NoLoc]
  /\ inFlight = [p \in Procs |-> IF p = "a" THEN 1 ELSE 0]
  /\ refused = [p \in Procs |-> FALSE]
  /\ recovered = [p \in Procs |-> NoRecovery]
  /\ rewardShare = 0
  /\ runOnceReply = [p \in Procs |-> NoReply]
  /\ startLog = [p \in Procs |-> NoLog]
  /\ httpRun = [p \in Procs |-> NoRequest]
  /\ lockCall = [p \in Procs |-> NoCall]
  /\ tradeHistory = [p \in Periods |-> TradeRows(p)]
  /\ now = 1
  /\ DRY_RUN = FALSE
  /\ replicas = {"a"}
  /\ configured = replicas
  /\ adminEnv = [REWARDS_ADMIN_SECRET |-> "s3cret", ADMIN_SECRET |-> ""]
  /\ poolBps = REWARDS_POOL_BPS
  /\ budget = [FullBudget EXCEPT !.accruals = 0, !.crashes = 0, !.connLoss = 0, !.errors = 0]

NextPayout ==
  \/ \E p \in Procs : SendPayout(p)
  \/ \E p \in Procs : PersistSignature(p)
  \/ \E p \in Procs : PayoutFailed(p)
  \/ \E p \in Procs : FinalizeEpoch(p)

SpecPayout == InitPayout /\ [][NextPayout]_vars

\* ---------------------------------------------------------- getTopWallets
\* One engine process settling period 1 over any trade table made of up to
\* MaxWhales wallets of high profit and too few trades and any of six other
\* wallets, two of them equal in profit; a pot of MaxPot is carried and the
\* vault covers it.
MaxWhales == 21
WhaleNames ==
  <<"H01", "H02", "H03", "H04", "H05", "H06", "H07", "H08", "H09", "H10", "H11", "H12",
    "H13", "H14", "H15", "H16", "H17", "H18", "H19", "H20", "H21", "H22", "H23", "H24">>
WhaleProfit == 1000
Whale(i) == Row(Wallet(WhaleNames[i], 44, TRUE), WhaleProfit + i, MIN_TRADES - 1)
Whales(n) == {Whale(i) : i \in 1..n}
OtherRows ==
  {Row(W1, 10, 4), Row(W2, 10, 3), Row(W3, 3, 3), Row(W4, 7, 5), Row(WBad, 30, 5),
   Row(TooShort, 8, 3)}
TradeTables == {Whales(n) \cup others : n \in 0..MaxWhales, others \in SUBSET OtherRows}

InitSelect ==
  /\ InitEngine
  /\ \E table \in TradeTables :
       tradeHistory = [p \in Periods |-> IF p = 1 THEN table ELSE TradeRows(p)]
  /\ carryRewardsLamports = MaxPot
  /\ claimable = 0
  /\ vault = InitialVault + MaxPot
  /\ now = 1
  /\ DRY_RUN = FALSE
  /\ replicas = {"a"}
  /\ configured = replicas
  /\ adminEnv = [REWARDS_ADMIN_SECRET |-> "s3cret", ADMIN_SECRET |-> ""]
  /\ poolBps = REWARDS_POOL_BPS
  /\ budget = [FullBudget EXCEPT !.accruals = 0, !.crashes = 0, !.connLoss = 0, !.errors = 0]

SpecSelect == InitSelect /\ [][NextPlan]_vars

\* ===================================================================== claims
RECURSIVE SumOver(_, _)
SumOver(S, f) ==
  IF S = {} THEN 0
  ELSE LET x == CHOOSE y \in S : TRUE IN f[x] + SumOver(S \ {x}, f)

\* No tick is in progress and no epoch is part-way through the state machine.
Quiescent ==
  /\ \A p \in Procs : pc[p] = "idle"
  /\ \A e \in Periods : epochs[e].status \in {"none", "completed", "skipped", "failed"}

\* C1: the payout batch of an epoch lands on chain at most once, whatever
\* ticks, crashes, restarts and recoveries happen.
C1_AtMostOncePayout == \A e \in Periods : sent[e] <= 1

PaidIfCompleted ==
  [e \in Periods |-> IF epochs[e].status = "completed" THEN epochs[e].totalPaidLamports ELSE 0]
RecordedRewardInflow == [e \in Periods |-> epochs[e].rewardInflowLamports]

\* C2: between ticks, carryRewardsLamports plus the totalPaid of the completed
\* epochs equals the rewardInflow recorded on the epoch rows (a row whose
\* claim phase never completed records 0).
C2_CarryConservation ==
  Quiescent =>
    carryRewardsLamports + SumOver(Periods, PaidIfCompleted)
      = SumOver(Periods, RecordedRewardInflow)

\* C3: the lamports transferred to winners never exceed the reward share of
\* the fees claimed so far.
C3_TreasurySafe == paidOut <= rewardShare

\* C4: at most one engine process has isLeader = TRUE.
C4_OneLeader == Cardinality({p \in Procs : isLeader[p]}) <= 1

\* C5: at most one engine process has a tick in progress.
C5_NoConcurrentTicks == Cardinality({p \in Procs : isProcessing[p]}) <= 1

\* C6: within one process at most one tick is in progress, whichever entry
\* point (timer, start(), runOnce()) started it.
C6_SingleFlight ==
  \A p \in Procs : inFlight[p] <= 1 /\ (isProcessing[p] <=> inFlight[p] = 1)

\* A tick is in progress and another call of tick() in the same process
\* returned at the single-flight test.
C6_Witness == \E p \in Procs : refused[p] /\ isProcessing[p] /\ inFlight[p] = 1

\* C7: lastProcessedPeriodEnd never decreases, and every completed or skipped
\* epoch has periodEnd <= lastProcessedPeriodEnd.
C7_CursorMonotonic ==
  /\ [](\A e \in Periods :
          epochs[e].status \in {"completed", "skipped"} => EndTime(e) <= lastProcessedPeriodEnd)
  /\ [][lastProcessedPeriodEnd' >= lastProcessedPeriodEnd]_vars

\* The period the selection rule names in the current state.
Ended == {q \in Periods : EndTime(q) <= now}
AfterCursor == {q \in Ended : EndTime(q) > lastProcessedPeriodEnd}
ExpectedPeriod ==
  IF lastProcessedPeriodEnd # 0
  THEN IF AfterCursor = {} THEN NoPeriod
       ELSE CHOOSE q \in AfterCursor : \A r \in AfterCursor : EndTime(q) <= EndTime(r)
  ELSE IF Ended = {} THEN NoPeriod
       ELSE CHOOSE q \in Ended : \A r \in Ended : EndTime(q) >= EndTime(r)

\* What a step of processNextPeriod may do, given the period the rule names.
SelectionStep(p) ==
  pc[p] = "next" =>
    /\ pc'[p] = "claim" => loc'[p].epoch = ExpectedPeriod
    /\ \A q \in Periods : epochs'[q] # epochs[q] => q = ExpectedPeriod
    /\ lastProcessedPeriodEnd' # lastProcessedPeriodEnd =>
          ExpectedPeriod # NoPeriod /\ lastProcessedPeriodEnd' = EndTime(ExpectedPeriod)
    /\ ExpectedPeriod = NoPeriod => pc'[p] \in {"idle", "next"} /\ UNCHANGED dbVars
\* C8: the period a tick hands to the state machine is, with the cursor set,
\* the ended period with the smallest endTime above the cursor, and with the
\* cursor null the most recently ended period; when there is none the tick
\* processes no period: it writes nothing and ends.
C8_NextPeriodSelection == [][\A p \in Procs : SelectionStep(p)]_vars

\* With the cursor at the end of the first period and the second and third
\* both ended, a tick created the epoch of the second and handed it over.
C8_Witness ==
  \E p \in Procs :
    /\ pc[p] = "claim" /\ loc[p].epoch = 2
    /\ lastProcessedPeriodEnd = EndTime(1)
    /\ epochs[2].status = "created" /\ epochs[2].updatedAt >= EndTime(3)

ThreeDistinctWinners(rows) ==
  /\ Cardinality(rows) = 3
  /\ {w.rank : w \in rows} = {1, 2, 3}
  /\ Cardinality({w.walletAddress : w \in rows}) = 3

\* C9: a completed epoch has exactly three Winner rows, of ranks 1, 2, 3 and
\* pairwise distinct wallets; a skipped or failed epoch has none.
C9_WinnerRows ==
  \A e \in Periods :
    /\ epochs[e].status = "completed" => ThreeDistinctWinners(winners[e])
    /\ epochs[e].status \in {"skipped", "failed"} => winners[e] = {}

\* C10: a completed epoch has a payoutTxSignature.
C10_CompletedHasSignature ==
  \A e \in Periods : epochs[e].status = "completed" => epochs[e].payoutTxSignature # NullSig

\* An epoch completed after its batch landed on chain.
C10_Witness ==
  \E e \in Periods : epochs[e].status = "completed" /\ sent[e] = 1 /\ epochs[e].payoutTxSignature >= 1

\* C11: for every completed epoch the three payoutPlan amounts sum to
\* totalPot, totalPaid equals totalPot, and the amounts do not increase
\* with the rank.
C11_PlanSumsAndOrder ==
  \A e \in Periods :
    epochs[e].status = "completed" =>
      LET plan == epochs[e].payoutPlan
      IN /\ Len(plan) = 3
         /\ plan[1].amountLamports + plan[2].amountLamports + plan[3].amountLamports
               = epochs[e].totalPotLamports
         /\ epochs[e].totalPaidLamports = epochs[e].totalPotLamports
         /\ plan[1].amountLamports >= plan[2].amountLamports
         /\ plan[2].amountLamports >= plan[3].amountLamports

\* C12: treasuryAccruedLamports never decreases.
C12_TreasuryMonotonic == [][treasuryAccruedLamports' >= treasuryAccruedLamports]_vars

RecordedTreasuryInflow == [e \in Periods |-> epochs[e].treasuryInflowLamports]

\* C13: treasuryAccruedLamports equals the sum of the treasuryInflow recorded
\* on the epoch rows (a row that never reached the end of the claim phase
\* records 0).
C13_TreasuryConservation ==
  treasuryAccruedLamports = SumOver(Periods, RecordedTreasuryInflow)

InProgress(row) == row.status \in {"claiming", "paying"}
Terminal(row) == row.status \in {"completed", "skipped", "failed"}

\* C14: a tick whose recovery ran to its end leaves the recovered epoch in a
\* terminal state, or in claiming or paying and younger than STUCK_TIMEOUT.
C14_CrashRecovery ==
  \A p \in Procs :
    pc[p] = "idle" /\ recovered[p].epoch # NoPeriod =>
      LET row == epochs[recovered[p].epoch]
      IN Terminal(row) \/ (InProgress(row) /\ ~IsStuck(row))

\* C15: an epoch that is failed is reset to created by a later tick; failed
\* is not a resting state while ticks keep running.
C15_SelfHealingRetry ==
  \A e \in Periods : (epochs[e].status = "failed") ~> (epochs[e].status = "created")

\* A step in which process p commits its Decide transaction.
DecideStep(p) == pc[p] = "decide_tx" /\ pc'[p] # "decide_tx"

CompensationStep(p) ==
  pc[p] = "comp" /\ pc'[p] # "comp" =>
    LET e == loc[p].epoch
        row == epochs[e]
    IN /\ carryRewardsLamports' = carryRewardsLamports + row.totalPotLamports
       /\ carryRewardsLamports' = row.carryInLamports + row.rewardInflowLamports
       /\ epochs'[e].status = "failed"
       /\ epochs'[e].failureReason # ""
       /\ lastProcessedPeriodEnd' = lastProcessedPeriodEnd
       /\ treasuryAccruedLamports' >= treasuryAccruedLamports

\* The tick that follows a refused payout passes processNextPeriod in this step.
FailedResetStep(p) ==
  pc[p] = "next" /\ pc'[p] # "next" =>
    \A e \in Periods :
      epochs[e].status = "failed" /\ epochs[e].failureReason = "payout_failed" =>
        epochs'[e].status = "created"

\* C18: when sendPayout answers not-ok for a paying epoch, one transaction adds
\* the epoch's totalPot back to carry (carry = pre-Decide carry + the fresh
\* rewardInflow) and sets the epoch failed with a reason, the cursor stays,
\* treasuryAccrued does not decrease, and the next tick resets the epoch from
\* failed to created.
C18_PayoutFailureCompensation ==
  [][\A p \in Procs : CompensationStep(p) /\ FailedResetStep(p)]_vars

\* The process runs on through this step: it does not crash in it.
Survives == budget'.crashes = budget.crashes

\* C19: when recovery finds a stuck paying epoch with a stored signature that
\* verifyTransaction confirms, it finalizes with that signature: the epoch
\* becomes completed with the signature it had, nothing is sent and carry
\* stays as it is.
C19_ConfirmedRecovery ==
  [][\A p \in Procs :
       LET e == loc[p].epoch
           stuck == loc[p].stuck
       IN /\ pc[p] = "rec_pay" /\ loc'[p].confirmed =>
               /\ stuck.payoutTxSignature # NullSig
               /\ pc'[p] = "finalize"
               /\ loc'[p].sig = stuck.payoutTxSignature
               /\ epochs' = epochs
               /\ sent' = sent /\ nSends' = nSends /\ vault' = vault
               /\ carryRewardsLamports' = carryRewardsLamports
          /\ pc[p] = "finalize" /\ loc[p].confirmed /\ pc'[p] # "finalize" /\ Survives =>
               /\ epochs'[e].status = "completed"
               /\ epochs'[e].payoutTxSignature = stuck.payoutTxSignature
               /\ epochs[e].payoutTxSignature = stuck.payoutTxSignature
               /\ sent' = sent /\ nSends' = nSends /\ vault' = vault
               /\ carryRewardsLamports' = carryRewardsLamports]_vars

C19_Witness ==
  \E p \in Procs :
    LET e == recovered[p].epoch
    IN /\ recovered[p].confirmed
       /\ e # NoPeriod
       /\ epochs[e].status = "completed"
       /\ epochs[e].payoutTxSignature >= 1
       /\ sent[e] = 1

Rejections == {"Bags service not configured", "Not leader instance", "Already processing"}

\* C20: runOnce() answers a rejection, starts no tick and changes no state
\* when the engine is not leader, the Gateway is not configured or a tick is
\* in progress; otherwise it starts the tick under the single-flight flag.
C20_ManualTrigger ==
  [][\A p \in Procs :
       runOnceReply'[p] # runOnceReply[p] =>
         IF ~isLeader[p] \/ ~initialized[p] \/ isProcessing[p]
         THEN /\ runOnceReply'[p] \in Rejections
              /\ UNCHANGED <<dbVars, chainVars, lockVars, envVars, tickVars, rewardShare>>
         ELSE /\ runOnceReply'[p] = "Processing triggered"
              /\ isProcessing'[p]
              /\ inFlight[p] = 0 /\ inFlight'[p] = 1
              /\ pc[p] = "idle" /\ pc'[p] = "recover"
              /\ UNCHANGED <<dbVars, chainVars, lockVars, envVars, rewardShare>>]_vars

C20_Witness ==
  \E p, q \in Procs :
    /\ runOnceReply[p] = "Already processing" /\ isProcessing[p] /\ isLeader[p]
    /\ runOnceReply[q] = "Not leader instance" /\ ~isLeader[q] /\ initialized[q]

\* Process p holds nothing and runs nothing.
Dormant(p) ==
  /\ isStopped[p] /\ ~timers[p] /\ ~initialized[p]
  /\ ~lockClient[p] /\ ~isLeader[p] /\ lockHolder # p
  /\ ~isProcessing[p] /\ pc[p] = "idle" /\ inFlight[p] = 0

RowsUntouched ==
  /\ carryRewardsLamports = 0 /\ treasuryAccruedLamports = 0 /\ lastProcessedPeriodEnd = 0
  /\ \A e \in Periods : epochs[e] = NoEpoch /\ winners[e] = {}

\* C21: when Gateway init() answers not ready, start() installs no timer, does
\* not try the advisory lock, runs no tick and writes no row; a process
\* without the Gateway configuration stays dormant.
C21_DormantUnconfigured ==
  /\ [](\A p \in Procs \ configured : Dormant(p))
  /\ [](configured = {} => RowsUntouched)
  /\ [][\A p \in Procs :
          startLog'[p] # startLog[p]
          /\ startLog'[p] = "Engine disabled - Bags service not configured" =>
            UNCHANGED <<dbVars, chainVars, lockVars, tickVars>>]_vars

C21_Witness ==
  \E p, q \in Procs :
    /\ p \in replicas \ configured
    /\ startLog[p] = "Engine disabled - Bags service not configured"
    /\ Dormant(p)
    /\ q \in configured /\ isLeader[q] /\ pc[q] # "idle"

\* C22: with DRY_RUN set neither claimFees nor sendPayout is ever called (no
\* fee is claimed, nothing leaves the vault), and an epoch that reaches the
\* payout phase is completed with the signature DRY_RUN_NO_TX.
C22_DryRun ==
  /\ [](DRY_RUN =>
         /\ nSends = 0 /\ paidOut = 0 /\ vault = InitialVault
         /\ \A e \in Periods :
              /\ sent[e] = 0
              /\ epochs[e].status = "completed" =>
                   epochs[e].payoutTxSignature = DRY_RUN_NO_TX)
  /\ [][DRY_RUN =>
         /\ claimable' >= claimable
         /\ \A p \in Procs :
              pc[p] = "decide_tx" /\ epochs'[loc[p].epoch].status = "paying" =>
                pc'[p] = "finalize" /\ loc'[p].sig = DRY_RUN_NO_TX]_vars

C22_Witness ==
  /\ DRY_RUN
  /\ claimable > 0
  /\ \E e \in Periods :
       /\ epochs[e].status = "completed"
       /\ epochs[e].payoutTxSignature = DRY_RUN_NO_TX
       /\ Len(epochs[e].payoutPlan) = 3

\* The header of the request is the configured administrator secret.
CorrectSecret(provided) == AdminSecret # "" /\ provided = AdminSecret

\* C23: a POST /run without the correct administrator secret header is
\* answered Unauthorized and does not call runOnce(), whatever the two secret
\* variables are set to, also when neither is set.
C23_RunAuthorized ==
  [][\A p \in Procs :
       httpRun'[p] # httpRun[p] /\ ~CorrectSecret(httpRun'[p].provided) =>
         /\ httpRun'[p].status = 401
         /\ UNCHANGED <<runOnceReply, tickVars>>]_vars

\* C24: buildPayoutPlan(P, top3) returns three entries with ranks 1, 2, 3 in
\* the order of top3 and amounts floor(P*50/100), floor(P*30/100) and the
\* rest of P; the amounts are non-negative and sum to P.
C24_PlanAmounts ==
  \A e \in Periods :
    epochs[e].payoutPlan # <<>> =>
      LET plan == epochs[e].payoutPlan
          P == epochs[e].totalPotLamports
          a1 == (P * 50) \div 100
          a2 == (P * 30) \div 100
      IN /\ Len(plan) = 3
         /\ \E top3 \in GetTopWallets(e) :
              /\ Len(top3) = 3
              /\ \A i \in 1..3 : plan[i].rank = i /\ plan[i].wallet = top3[i].wallet
         /\ plan[1].amountLamports = a1
         /\ plan[2].amountLamports = a2
         /\ plan[3].amountLamports = P - a1 - a2
         /\ \A i \in 1..3 : plan[i].amountLamports >= 0
         /\ plan[1].amountLamports + plan[2].amountLamports + plan[3].amountLamports = P

C24_Witness ==
  \E e \in Periods :
    /\ Len(epochs[e].payoutPlan) = 3
    /\ epochs[e].totalPotLamports = MaxPot - 1
    /\ epochs[e].payoutPlan[3].amountLamports > (epochs[e].totalPotLamports * 20) \div 100

\* The inflow columns of a row as the split prescribes them.
SplitOk(row) ==
  LET total == row.totalInflowLamports
      delta == row.afterBalanceLamports - row.beforeBalanceLamports
      reward == row.rewardInflowLamports
      treasury == row.treasuryInflowLamports
  IN /\ total = (IF delta > 0 THEN delta ELSE 0)
     /\ reward = (total * poolBps) \div 10000
     /\ treasury = total - reward
     /\ total >= 0 /\ reward >= 0 /\ treasury >= 0
     /\ reward + treasury = total

\* C25: totalInflow = max(0, afterBalance - beforeBalance), rewardInflow =
\* floor(totalInflow * poolBps / 10000) and treasuryInflow = totalInflow -
\* rewardInflow, both non-negative and adding up to totalInflow, in the rows
\* written by the claim phase and by recovery's recomputation.
C25_InflowSplit ==
  [][\A p \in Procs :
       /\ DecideStep(p) /\ Survives => SplitOk(epochs'[loc[p].epoch])
       /\ pc[p] = "rec_claim" /\ pc'[p] # "rec_claim" /\ Survives
          /\ epochs'[loc[p].epoch].status = "created" =>
            SplitOk(epochs'[loc[p].epoch])]_vars

C25_Witness ==
  \E p \in Procs :
    LET e == recovered[p].epoch
    IN /\ e # NoPeriod
       /\ epochs[e].status = "created"
       /\ epochs[e].totalInflowLamports > 0
       /\ (epochs[e].totalInflowLamports * poolBps) % 10000 # 0
       /\ epochs[e].rewardInflowLamports > 0

\* ------------------------------------------------------------------------ C26
\* An entry sendPayout refuses: a non-positive amount, an amount above
\* 2^53 - 1, or a wallet that is not 32 to 44 base58 characters.
BadEntry(w) ==
  \/ ~Greater(w.lamports, BigInt(0))
  \/ Greater(w.lamports, MAX_SAFE_LAMPORTS)
  \/ ~(w.wallet.base58 /\ w.wallet.len \in 32..44)

ValidationMessages == {"exceeds safe limit", "Invalid payout amount", "Invalid wallet address"}

SendPayoutCall(p) == pc[p] = "send" /\ pc'[p] # "send" /\ Survives

\* C26: whenever sendPayout is called with a batch in which some entry has a
\* non-positive amount, an amount above 2^53 - 1 or a malformed wallet, it
\* returns not-ok with a validation error and submits no transaction: the vault,
\* the transactions sent and the lamports paid out are unchanged.
C26_PreValidation ==
  [][\A p \in Procs :
       (SendPayoutCall(p) /\ \E i \in 1..Len(loc[p].winners) : BadEntry(loc[p].winners[i]))
         => /\ pc'[p] = "comp"
            /\ loc'[p].error \in ValidationMessages
            /\ UNCHANGED <<vault, sent, nSends, paidOut>>]_vars

\* A batch whose second entry alone is refused, for its wallet, has been
\* rejected and the epoch marked failed with nothing sent, and elsewhere
\* a batch of valid entries has been sent.
C26_Witness ==
  \E p \in Procs :
    /\ pc[p] = "comp"
    /\ Len(loc[p].winners) >= 2
    /\ ~BadEntry(loc[p].winners[1])
    /\ BadEntry(loc[p].winners[2])
    /\ loc[p].error = "Invalid wallet address"
    /\ nSends = 0
    /\ vault = InitialVault


\* ------------------------------------------------------------------------ C27
ReservedPot ==
  [e \in Periods |-> IF epochs[e].status = "paying" THEN epochs[e].totalPotLamports ELSE 0]

BecomesPaying(e) == epochs[e].status # "paying" /\ epochs'[e].status = "paying"

\* With one engine process: the step that makes an epoch paying also writes
\* carry = 0, and the carry, the pots of the paying epochs and the amounts of
\* the completed epochs together never exceed the reward share claimed so far.
ReservationOneEngine ==
  /\ [](carryRewardsLamports + SumOver(Periods, ReservedPot)
          + SumOver(Periods, PaidIfCompleted) <= rewardShare)
  /\ [][\A e \in Periods : BecomesPaying(e) => carryRewardsLamports' = 0]_vars

\* C27: the step that makes an epoch paying also writes carry = 0, and while
\* an epoch is paying with its pot reserved, the Decide of another epoch takes
\* into its totalPot no more carry than the carry holds at that moment: nothing
\* of the reserved pot enters it.
C27_PotReservation ==
  /\ [][\A e \in Periods : BecomesPaying(e) => carryRewardsLamports' = 0]_vars
  /\ [][\A p \in Procs : \A e \in Periods :
          (/\ DecideStep(p)
           /\ e # loc[p].epoch
           /\ epochs[e].status = "paying"
           /\ epochs[e].totalPotLamports > 0)
            => epochs'[loc[p].epoch].carryInLamports <= carryRewardsLamports]_vars

\* ------------------------------------------------------------------------ C28
\* The status changes the lifecycle allows; "none" is the period without a
\* row, whose INSERT makes it created.
LifecycleEdges ==
  {<<"none", "created">>,
   <<"created", "claiming">>,
   <<"claiming", "skipped">>, <<"claiming", "paying">>, <<"claiming", "failed">>,
   <<"paying", "completed">>, <<"paying", "failed">>,
   <<"failed", "created">>,
   <<"claiming", "created">>}

InRecovery == \E p \in Procs : pc[p] \in {"recover", "rec_claim", "rec_pay"}

\* C28: every change of an epoch's status follows an edge of the lifecycle,
\* claiming -> created is taken by recovery only, and so completed and skipped
\* are never left and a paying epoch never goes back to created.
C28_Lifecycle ==
  [][\A e \in Periods :
       epochs'[e].status # epochs[e].status
         => /\ <<epochs[e].status, epochs'[e].status>> \in LifecycleEdges
            /\ (epochs[e].status = "claiming" /\ epochs'[e].status = "created") => InRecovery]_vars

\* ------------------------------------------------------------------------ C29
\* processNextPeriod runs to the end of processEpochForPeriod's status tests.
PhaseAStep(p) ==
  /\ pc[p] = "next"
  /\ pc'[p] # "next"
  /\ Survives
  /\ budget'.errors = budget.errors

Selected == NextPeriodToProcess(lastProcessedPeriodEnd, now)

\* C29: when the epoch of the selected period is claiming or paying, normal
\* processing ends the tick with the epoch rows, RewardsState, the Winners and
\* the chain (vault, claimable fees, transactions sent) unchanged; when it is
\* completed or skipped it ends the tick having set the cursor to the period's
\* end and changed nothing else of them.
C29_PhaseAFrame ==
  [][\A p \in Procs :
       (PhaseAStep(p) /\ Selected # NoPeriod)
         => /\ epochs[Selected].status \in {"claiming", "paying"}
                 => /\ UNCHANGED <<dbVars, chainVars>>
                    /\ pc'[p] = "idle" /\ ~isProcessing'[p]
            /\ epochs[Selected].status \in {"completed", "skipped"}
                 => /\ lastProcessedPeriodEnd' = EndTime(Selected)
                    /\ UNCHANGED <<carryRewardsLamports, treasuryAccruedLamports,
                                   epochs, winners, chainVars>>
                    /\ pc'[p] = "idle" /\ ~isProcessing'[p]]_vars

\* The cursor stands on a terminal epoch whose row was last written before
\* another epoch was settled (which put the cursor on that one): the cursor
\* was brought back by the status test of an already terminal epoch.
C29_Witness ==
  \E e, f \in Periods :
    /\ e # f
    /\ lastProcessedPeriodEnd = EndTime(e)
    /\ epochs[e].status \in {"completed", "skipped"}
    /\ epochs[f].status \in {"completed", "skipped"}
    /\ epochs[f].updatedAt > epochs[e].updatedAt

\* ------------------------------------------------------------------------ C30
\* Process p is settling the epoch that its recovery has reset from
\* claiming to created in this tick, with an inflow recomputed from the
\* recorded beforeBalance: the interrupted claim had brought fees in.
Resumed(p) ==
  /\ recovered[p].epoch # NoPeriod
  /\ recovered[p].epoch = loc[p].epoch
  /\ ~recovered[p].confirmed
  /\ epochs[loc[p].epoch].totalInflowLamports > 0

\* C30: once recovery has reset a stuck claiming epoch to created with the
\* inflow recomputed from the recorded beforeBalance, claimFees is not invoked
\* for that epoch again, and the Decide that follows keeps the recomputed
\* inflow on the row, puts its rewardInflow into totalPot and adds its
\* treasuryInflow to treasuryAccruedLamports.
C30_ResumeStuckClaim ==
  /\ [](\A p \in Procs : Resumed(p) => pc[p] # "fees")
  /\ [][\A p \in Procs :
          (DecideStep(p) /\ Survives /\ Resumed(p))
            => LET row == epochs[loc[p].epoch]
                   decided == epochs'[loc[p].epoch]
               IN /\ decided.totalInflowLamports = row.totalInflowLamports
                  /\ decided.rewardInflowLamports = row.rewardInflowLamports
                  /\ decided.totalPotLamports
                       = decided.carryInLamports + row.rewardInflowLamports
                  /\ treasuryAccruedLamports'
                       = treasuryAccruedLamports + row.treasuryInflowLamports]_vars

\* The Decide half of C30 on its own.
ResumedDecide ==
  [][\A p \in Procs :
       (DecideStep(p) /\ Survives /\ Resumed(p))
         => LET row == epochs[loc[p].epoch]
                decided == epochs'[loc[p].epoch]
            IN /\ decided.totalInflowLamports = row.totalInflowLamports
               /\ decided.totalPotLamports
                    = decided.carryInLamports + row.rewardInflowLamports]_vars

\* ------------------------------------------------------------------------ C31
EntersStatus(e, st) == epochs[e].status # st /\ epochs'[e].status = st

\* C31: every epoch that is completed, skipped or failed records
\* carryIn + rewardInflow = totalPot; a completed one records
\* totalPaid = totalPot; and the step that makes an epoch skipped leaves its
\* pot in the carry, the step that fails a paying epoch adds its pot to the
\* carry.
C31_TerminalAccounting ==
  /\ [](\A e \in Periods :
          Terminal(epochs[e]) =>
            /\ epochs[e].carryInLamports + epochs[e].rewardInflowLamports
                 = epochs[e].totalPotLamports
            /\ epochs[e].status = "completed" =>
                 epochs[e].totalPaidLamports = epochs[e].totalPotLamports)
  /\ [][\A e \in Periods :
          /\ EntersStatus(e, "skipped") =>
               carryRewardsLamports' = epochs'[e].totalPotLamports
          /\ (EntersStatus(e, "failed") /\ epochs[e].status = "paying") =>
               carryRewardsLamports' = carryRewardsLamports + epochs[e].totalPotLamports]_vars

\* ------------------------------------------------------------------------ C32
\* The wallets that pass every filter, and the order the selection is to
\* rank them in: profit descending, then trade count descending (no two rows
\* of the tables drawn are equal in both).
Eligible(rows) == {r \in rows : EnoughTrades(r) /\ PositiveProfit(r) /\ WalletOk(r)}
RanksAbove(r, q) ==
  \/ r.profitLamports > q.profitLamports
  \/ r.profitLamports = q.profitLamports /\ r.tradeCount > q.tradeCount

RECURSIVE Ranked(_)
Ranked(S) ==
  IF S = {} THEN <<>>
  ELSE LET first == CHOOSE r \in S : \A q \in S \ {r} : RanksAbove(r, q)
       IN <<first>> \o Ranked(S \ {first})

BestThree(rows) == Slice(Ranked(Eligible(rows)), 3)

\* C32: the wallets Decide pays are the three highest-profit wallets among
\* all wallets of the window that pass the filters, ties in profit ranked by
\* trade count; with three or more such wallets the epoch is paid to exactly
\* them in that order and is not skipped for insufficient eligibility.
C32_WinnerSelection ==
  [][\A p \in Procs :
       DecideStep(p) =>
         LET e == loc[p].epoch
             best == BestThree(tradeHistory[e])
             row == epochs'[e]
         IN Len(best) = 3 =>
              /\ row.failureReason # "insufficient_eligible_wallets"
              /\ row.status = "paying" =>
                   /\ Len(row.payoutPlan) = 3
                   /\ \A i \in 1..3 : row.payoutPlan[i].wallet = best[i].wallet]_vars

\* The half of C32 that does not depend on the order of equal profits.
NotSkippedWithThree ==
  [][\A p \in Procs :
       DecideStep(p) =>
         (Len(BestThree(tradeHistory[loc[p].epoch])) = 3
            => epochs'[loc[p].epoch].failureReason # "insufficient_eligible_wallets")]_vars

\* ------------------------------------------------------------------------ C33
\* The calls of processEpoch that are state-machine transactions: the Decide
\* transaction (its read and its writes), the payout-failure compensation
\* and Finalize.
Transactions == {"decide", "decide_tx", "comp", "finalize"}
AbortedIn(p) == pc[p] = "catch" /\ loc[p].error \in Transactions
Handled(p) == AbortedIn(p) /\ pc'[p] # "catch" /\ Survives

\* C33: when a database error aborts the Decide transaction, the
\* compensation or Finalize, the handling of the error leaves the epoch's
\* status, the carry, the treasury counter and the cursor as they were.
C33_AbortLeavesState ==
  [][\A p \in Procs :
       Handled(p) =>
         /\ epochs'[loc[p].epoch].status = epochs[loc[p].epoch].status
         /\ carryRewardsLamports' = carryRewardsLamports
         /\ treasuryAccruedLamports' = treasuryAccruedLamports
         /\ lastProcessedPeriodEnd' = lastProcessedPeriodEnd]_vars

\* The same for an aborted Finalize alone, after the payout was sent.
FinalizeAbortLeavesCarry ==
  [][\A p \in Procs :
       (Handled(p) /\ loc[p].error = "finalize") =>
         carryRewardsLamports' = carryRewardsLamports]_vars

\* ------------------------------------------------------------------------ C34
\* The Gateway call of the claim phase that can reject once the epoch is
\* written claiming: the vault balance read after claimFees.
GatewayFailedInClaim(p) == pc[p] = "catch" /\ loc[p].error = "fees"

\* C34: when a Gateway call fails in the claim phase, after the epoch was
\* written claiming and before Decide commits, the epoch stays claiming and
\* carry, treasury counter and cursor are unchanged.
C34_ClaimErrorStaysClaiming ==
  [][\A p \in Procs :
       (GatewayFailedInClaim(p) /\ pc'[p] # "catch" /\ Survives) =>
         /\ epochs[loc[p].epoch].status = "claiming" => epochs'[loc[p].epoch].status = "claiming"
         /\ carryRewardsLamports' = carryRewardsLamports
         /\ treasuryAccruedLamports' = treasuryAccruedLamports
         /\ lastProcessedPeriodEnd' = lastProcessedPeriodEnd]_vars

\* ------------------------------------------------------------------------ C35
StopHasReturned(p) == isStopped[p] /\ lockCall[p].stop = "idle"

StoppedWithAcquisitionInFlight ==
  \E p \in Procs : StopHasReturned(p) /\ lockCall[p].check = "query"

\* ------------------------------------------------------------------------ C36
EpochsInProgress == {e \in Periods : InProgress(epochs[e])}
StartsClaim(e) == epochs[e].status # "claiming" /\ epochs'[e].status = "claiming"

\* C36: at most one epoch is claiming or paying at any time, and no step
\* writes an epoch claiming while another epoch is claiming or paying.
C36_OneEpochInProgress ==
  /\ [](Cardinality(EpochsInProgress) <= 1)
  /\ [][\A e \in Periods : StartsClaim(e) => EpochsInProgress \subseteq {e}]_vars

\* ------------------------------------------------------------------------ C37
\* C37: an epoch reports lamports as paid only while it is paying or once it
\* is completed; a skipped or failed epoch has totalPaid = 0.
C37_PaidOnlyWhenPaid ==
  \A e \in Periods :
    epochs[e].totalPaidLamports # 0 => epochs[e].status \in {"paying", "completed"}

\* ------------------------------------------------------------------------ C38
Settled(e) ==
  /\ epochs[e].status \in {"completed", "skipped"}
  /\ lastProcessedPeriodEnd >= EndTime(e)

\* C38: with ticks that keep running and calls that succeed, the epoch of
\* every ended period is eventually completed or skipped with the cursor past
\* it, whatever the pot, 0 and pots of a few lamports included.
C38_EveryPeriodSettles ==
  \A e \in Periods : [](EndTime(e) <= now => <>Settled(e))

====
